---- MODULE Spec2Model ----
(***************************************************************************)
(* The AKShare collection pipeline of scripts/akshare: the collection pass *)
(* run_collection (collector.py) with its minute-bar and quote fallback    *)
(* chains, the synthetic bar synthesizer, the checkpoint-gated append to   *)
(* the raw log, and the atomic document writes of common.py.               *)
(*                                                                         *)
(* Representation.  A string is a sequence of one-character strings.  A   *)
(* bar timestamp "YYYY-MM-DD HH:MM:SS" of the modelled trading day is the  *)
(* index of its minute (1, 2, ...), and 0 is the empty string, so that the *)
(* string order of the fixed-width form is the order of the indices.  A   *)
(* Python Optional (a missing key, None, a raised call) is None == <<>>,   *)
(* a present value v is Some(v) == <<v>>.  The fields ingest_ts,           *)
(* generated_at and updated_at (wall-clock stamps no code reads) are left   *)
(* out of the rows and documents.                                          *)
(*                                                                         *)
(* The converter (converter.py) turns raw records into canonical frames.  *)
(* A start_ts_ms is counted in milliseconds from the start of the modelled *)
(* trading day; round(x, 4) and round(x, 2) give fixed-point numbers, in   *)
(* ten-thousandths and in hundredths.  The constant fields of a frame and  *)
(* its trading_day are left out; records carry the English keys only.      *)
(***************************************************************************)
EXTENDS Integers, Sequences, FiniteSets, TLC

\* ---------------------------------------------------------------- bounds
MaxTime == 2       \* minutes of the trading day the clock runs through
MaxIterations == 2 \* loop bodies run, over all the passes
MaxPrice == 2      \* upstream prices are 1..MaxPrice
MaxLot == 1        \* upstream cumulative volumes are 0..MaxLot
MaxCrashes == 1    \* passes killed before they return
MaxRows == 242     \* rows of the longest frame a minute endpoint is called on
MaxRecords == 3    \* raw records in one call of the converter
MaxDigits == 6     \* digits of the longest digit string given to to_code
MaxAttempts == 3   \* the largest attempts argument given to _retry_call

\* ------------------------------------------------------- program constants
MIN_RECOVERY_BARS == 240
DEFAULT_TAIL_BARS == 8
DEFAULT_MAX_FRAMES == 20000

None == <<>>
Some(v) == <<v>>

Max(a, b) == IF a >= b THEN a ELSE b
Min(a, b) == IF a <= b THEN a ELSE b

\* ------------------------------------------------------------ common.py
StartsWith(s, p) == Len(s) >= Len(p) /\ SubSeq(s, 1, Len(p)) = p

Lower(c) ==
  CASE c = "S" -> "s" [] c = "H" -> "h" [] c = "Z" -> "z"
    [] c = "B" -> "b" [] c = "J" -> "j" [] OTHER -> c

\* A lowering that leaves the letters as they are.
StrLowerNone(s) == s

StrLower(s) == [i \in 1..Len(s) |-> Lower(s[i])]

RECURSIVE LStrip(_)
LStrip(s) == IF s # <<>> /\ s[1] = " " THEN LStrip(Tail(s)) ELSE s

RECURSIVE RStrip(_)
RStrip(s) ==
  IF s # <<>> /\ s[Len(s)] = " " THEN RStrip(SubSeq(s, 1, Len(s) - 1)) ELSE s

Strip(s) == RStrip(LStrip(s))

Zeros(n) == [i \in 1..n |-> "0"]

\* str.zfill: pads on the left with "0", after a leading sign if there is one.
ZFill(s, width) ==
  IF Len(s) >= width THEN s
  ELSE IF s # <<>> /\ s[1] \in {"+", "-"}
       THEN <<s[1]>> \o Zeros(width - Len(s)) \o Tail(s)
       ELSE Zeros(width - Len(s)) \o s

to_code(value) ==
  LET raw == StrLower(Strip(value))
      cut == IF StartsWith(raw, <<"s", "h">>) \/ StartsWith(raw, <<"s", "z">>)
                \/ StartsWith(raw, <<"b", "j">>)
             THEN SubSeq(raw, 3, Len(raw)) ELSE raw
  IN ZFill(cut, 6)

\* ---------------------------------------------------------- collector.py
_to_prefixed_symbol(code) ==
  LET normalized == to_code(code)
  IN IF normalized[1] \in {"5", "6", "9"}
     THEN <<"s", "h">> \o normalized
     ELSE <<"s", "z">> \o normalized

\* A sleep after every failed attempt, the final one included.
SleepsAfterEvery(attempt, attempts, sleep_sec) == sleep_sec > 0

\* Line 73: whether the loop sleeps after the failed attempt (counted from 0).
SleepsAfter(attempt, attempts, sleep_sec) ==
  attempt + 1 < attempts /\ sleep_sec > 0

\* Lines 68-77 from the given attempt on.  outcomes[i] is what the i-th
\* invocation of fn does: [ok |-> TRUE, value] or [ok |-> FALSE, error].
\* events is the sequence of invocations ("call") and sleeps ("sleep") made.
RECURSIVE RetryFrom(_, _, _, _, _, _)
RetryFrom(attempt, attempts, outcomes, sleep_sec, events, last_error) ==
  IF attempt >= Max(1, attempts)
  THEN [raised |-> TRUE,
        error |-> IF last_error # None THEN last_error[1]
                  ELSE "retry_call_failed_without_error",
        value |-> None, events |-> events]
  ELSE IF outcomes[attempt + 1].ok
  THEN [raised |-> FALSE, error |-> "", value |-> Some(outcomes[attempt + 1].value),
        events |-> Append(events, "call")]
  ELSE RetryFrom(attempt + 1, attempts, outcomes, sleep_sec,
                 IF SleepsAfter(attempt, attempts, sleep_sec)
                 THEN events \o <<"call", "sleep">>
                 ELSE Append(events, "call"),
                 Some(outcomes[attempt + 1].error))

\* Lines 66-77.
_retry_call(outcomes, attempts, sleep_sec) ==
  RetryFrom(0, attempts, outcomes, sleep_sec, <<>>, None)

\* A field value is None when the key is absent or holds null, Some(n) when
\* it holds the number n, and a text of several characters when it holds
\* something float() raises on.
NonNumeric == <<"N", "/", "A">>
IsNumeric(value) == Len(value) = 1

\* Lines 99-103.
_as_float(value, fallback) == IF IsNumeric(value) THEN value[1] ELSE fallback

\* The session clock on (weekday 0..6, minute of day, second of the minute):
\* time(9,30) <= t <= time(11,30) or time(13,0) <= t <= time(15,0).
SecOfDay(mod, ss) == (mod * 60) + ss

_is_cn_a_market_open(wd, mod, ss) ==
  IF wd >= 5 THEN FALSE
  ELSE LET t == SecOfDay(mod, ss)
           morning_open == SecOfDay((9 * 60) + 30, 0) <= t
                           /\ t <= SecOfDay((11 * 60) + 30, 0)
           afternoon_open == SecOfDay(13 * 60, 0) <= t
                             /\ t <= SecOfDay(15 * 60, 0)
       IN morning_open \/ afternoon_open

\* ------------------------------------------ run_cycle_if_market_open.py
\* A datetime is [tz, wd, mod, ss]: its zone ("naive", "shanghai" or "utc")
\* and, in that zone, its weekday 0..6, minute of day and second.
\* Lines 17-21: a naive datetime is taken as Shanghai time, an aware one is
\* converted; Shanghai is 8 hours ahead of UTC.
ToShanghai(dt) ==
  IF dt.tz = "utc"
  THEN [tz |-> "shanghai",
        wd |-> (dt.wd + ((dt.mod + 480) \div 1440)) % 7,
        mod |-> (dt.mod + 480) % 1440,
        ss |-> dt.ss]
  ELSE [dt EXCEPT !.tz = "shanghai"]

\* The Shanghai instant (wd, mod, ss) as a datetime of the zone tz.
DatetimeIn(tz, wd, mod, ss) ==
  IF tz = "utc"
  THEN [tz |-> tz,
        wd |-> IF mod < 480 THEN (wd + 6) % 7 ELSE wd,
        mod |-> (mod + 960) % 1440,
        ss |-> ss]
  ELSE [tz |-> tz, wd |-> wd, mod |-> mod, ss |-> ss]

\* A session whose two ends are closed.
is_cn_a_market_open_exclusive(now) ==
  /\ ToShanghai(now).wd < 5
  /\ \/ /\ SecOfDay((9 * 60) + 30, 0) < SecOfDay(ToShanghai(now).mod, now.ss)
        /\ SecOfDay(ToShanghai(now).mod, now.ss) < SecOfDay((11 * 60) + 30, 0)
     \/ /\ SecOfDay(13 * 60, 0) < SecOfDay(ToShanghai(now).mod, now.ss)
        /\ SecOfDay(ToShanghai(now).mod, now.ss) < SecOfDay(15 * 60, 0)

\* Lines 16-29.
is_cn_a_market_open(now) ==
  IF ToShanghai(now).wd >= 5 THEN FALSE
  ELSE \/ /\ SecOfDay((9 * 60) + 30, 0) <= SecOfDay(ToShanghai(now).mod, now.ss)
          /\ SecOfDay(ToShanghai(now).mod, now.ss) <= SecOfDay((11 * 60) + 30, 0)
       \/ /\ SecOfDay(13 * 60, 0) <= SecOfDay(ToShanghai(now).mod, now.ss)
          /\ SecOfDay(ToShanghai(now).mod, now.ss) <= SecOfDay(15 * 60, 0)

\* ----------------------------------------------- maps (Python dicts)
EmptyMap == <<>>
MapGet(m, k) == IF k \in DOMAIN m THEN Some(m[k]) ELSE None
\* An assignment that leaves the new item alone in the dict.
MapPutAlone(m, k, v) == [x \in {k} |-> v]

MapPut(m, k, v) == [x \in (DOMAIN m) \cup {k} |-> IF x = k THEN v ELSE m[x]]

\* ------------------------------------------------------------- upstream
\* The requested symbols as the caller spells them, and their codes.
SymbolList == << <<"s", "h", "6", "0", "0", "5", "1", "9">>, <<"1">> >>
Codes == {to_code(SymbolList[i]) : i \in 1..Len(SymbolList)}

\* The lists a pass is run on: the first symbol alone, or both.
SymbolLists == {SubSeq(SymbolList, 1, n) : n \in 1..Len(SymbolList)}

\* The market of the modelled day: one true bar and one true quote per
\* minute.  The cumulative volume and turnover of the quote go up and fall
\* back to 0 (a reset of the upstream counter).
MarketPrice(t) == 1 + (t % MaxPrice)
MarketLots(t) == t % (MaxLot + 1)
MarketTurnover(t) == MarketLots(t) * MarketPrice(t)

\* A record of the history endpoint, by the columns the normaliser reads.
UpstreamBar(t) ==
  [time |-> t, open |-> Some(MarketPrice(t + 1)), close |-> Some(MarketPrice(t)),
   high |-> Some(MaxPrice), low |-> Some(1), volume |-> Some(MarketLots(t)),
   amount |-> Some(MarketTurnover(t)), avg |-> Some(MarketPrice(t))]

\* A minute endpoint's frame: the bars of minutes 1..k, the newest without
\* a time when blank.
UpstreamSeries(k, blank) ==
  [i \in 1..k |-> IF blank /\ i = k THEN [UpstreamBar(i) EXCEPT !.time = 0]
                  ELSE UpstreamBar(i)]

\* The alternate endpoint's frame: it has no amount and no average price.
AltSeries(k, blank) ==
  [i \in 1..k |-> [UpstreamSeries(k, blank)[i] EXCEPT !.amount = None, !.avg = None]]

\* What one call of a minute endpoint gives at minute t: None when it raises
\* (after the retries), else a frame: empty, or up to minute t - 1, or up to
\* minute t with or without the time of its newest row.
MinuteResponses(t) ==
  {None, Some(UpstreamSeries(0, FALSE)), Some(UpstreamSeries(t - 1, FALSE)),
   Some(UpstreamSeries(t, FALSE)), Some(UpstreamSeries(t, TRUE))}

AltResponses(t) ==
  {None, Some(AltSeries(0, FALSE)), Some(AltSeries(t - 1, FALSE)),
   Some(AltSeries(t, FALSE)), Some(AltSeries(t, TRUE))}

\* The quote fields an endpoint gives at minute t.
RawQuotes(t) ==
  {[latest |-> Some(MarketPrice(t)), pct_change |-> Some(1),
    turnover |-> Some(MarketTurnover(t)), volume |-> Some(MarketLots(t)),
    open |-> Some(MarketPrice(t + 1)), high |-> Some(MaxPrice), low |-> Some(1),
    prev_close |-> Some(1)]}

\* What one call of the direct quote endpoint gives: None when it raises.
DirectResponses(t) == {None} \cup {Some(q) : q \in RawQuotes(t)}

\* The market-wide snapshot: rows for some of the codes, spelled with the
\* exchange prefix, or None when the call raises.
RECURSIVE SpotRows(_, _, _)
SpotRows(i, S, q) ==
  IF i > Len(SymbolList) THEN <<>>
  ELSE LET c == to_code(SymbolList[i])
       IN (IF c \in S
           THEN <<[code |-> _to_prefixed_symbol(c), latest |-> q.latest,
                   pct_change |-> q.pct_change, turnover |-> q.turnover,
                   volume |-> q.volume, open |-> q.open, high |-> q.high,
                   low |-> q.low, prev_close |-> q.prev_close]>>
           ELSE <<>>) \o SpotRows(i + 1, S, q)

SpotResponses(t) ==
  {None} \cup {Some(SpotRows(1, S, q)) : S \in SUBSET Codes, q \in RawQuotes(t)}

\* ------------------------------------------------- collector.py: fetchers
\* The first rows of the frame instead of its last.
TailRowsHead(rows, n) ==
  IF Len(rows) <= n THEN rows ELSE SubSeq(rows, 1, n)

TailRows(rows, n) ==
  IF Len(rows) <= n THEN rows ELSE SubSeq(rows, Len(rows) - n + 1, Len(rows))

_normalize_minute_rows(code, rows) ==
  [i \in 1..Len(rows) |->
     [symbol_code |-> to_code(code),
      time |-> rows[i].time,
      open |-> _as_float(rows[i].open, 0),
      close |-> _as_float(rows[i].close, 0),
      high |-> _as_float(rows[i].high, 0),
      low |-> _as_float(rows[i].low, 0),
      volume_lot |-> _as_float(rows[i].volume, 0),
      amount_cny |-> _as_float(rows[i].amount, 0),
      avg_price |-> _as_float(rows[i].avg, 0),
      source |-> "akshare.stock_zh_a_hist_min_em"]]

\* The alternate endpoint's normaliser with 0.0 as every fallback.
_normalize_minute_rows_from_minute_api_zero(code, rows) ==
  [i \in 1..Len(rows) |->
     [symbol_code |-> to_code(code),
      time |-> rows[i].time,
      open |-> _as_float(rows[i].open, 0),
      close |-> _as_float(rows[i].close, 0),
      high |-> _as_float(rows[i].high, 0),
      low |-> _as_float(rows[i].low, 0),
      volume_lot |-> _as_float(rows[i].volume, 0),
      amount_cny |-> _as_float(rows[i].amount, 0),
      avg_price |-> _as_float(rows[i].avg, 0),
      source |-> "akshare.stock_zh_a_minute"]]

_normalize_minute_rows_from_minute_api(code, rows) ==
  [i \in 1..Len(rows) |->
     [symbol_code |-> to_code(code),
      time |-> rows[i].time,
      open |-> _as_float(rows[i].open, 0),
      close |-> _as_float(rows[i].close, 0),
      high |-> _as_float(rows[i].high, _as_float(rows[i].close, 0)),
      low |-> _as_float(rows[i].low, _as_float(rows[i].close, 0)),
      volume_lot |-> _as_float(rows[i].volume, 0),
      amount_cny |-> _as_float(rows[i].amount, 0),
      avg_price |-> _as_float(rows[i].avg, _as_float(rows[i].close, 0)),
      source |-> "akshare.stock_zh_a_minute"]]

\* A fetch that puts the rows of both endpoints in one result.
fetch_minute_tail_merged(code, tail_bars, histResp, altResp) ==
  [raised |-> FALSE,
   rows |-> (IF histResp = None THEN <<>>
             ELSE _normalize_minute_rows(code, histResp[1]))
            \o (IF altResp = None THEN <<>>
                ELSE _normalize_minute_rows_from_minute_api(code, altResp[1])),
   errors |-> <<>>]

\* fetch_minute_tail on the two endpoints' responses: [raised, rows, errors].
fetch_minute_tail(code, tail_bars, histResp, altResp) ==
  LET normalized == to_code(code)
      lookback_bars == Max(tail_bars, MIN_RECOVERY_BARS)
      histRows == IF histResp = None THEN <<>>
                  ELSE _normalize_minute_rows(normalized,
                                              TailRows(histResp[1], lookback_bars))
      altRows == IF altResp = None THEN <<>>
                 ELSE _normalize_minute_rows_from_minute_api(
                        normalized, TailRows(altResp[1], lookback_bars))
      errors1 == IF histResp = None THEN <<"hist_min_em">> ELSE <<>>
      errors2 == IF altResp = None THEN Append(errors1, "stock_zh_a_minute")
                 ELSE errors1
  IN IF histRows # <<>> THEN [raised |-> FALSE, rows |-> histRows, errors |-> <<>>]
     ELSE IF altRows # <<>>
          THEN [raised |-> FALSE, rows |-> altRows, errors |-> errors1]
     ELSE IF errors2 # <<>>
          THEN [raised |-> TRUE, rows |-> <<>>, errors |-> errors2]
     ELSE [raised |-> FALSE, rows |-> <<>>, errors |-> <<>>]

fetch_quote_snapshot(code, raw) ==
  [symbol_code |-> to_code(code),
   latest |-> _as_float(raw.latest, 0),
   pct_change |-> _as_float(raw.pct_change, 0),
   turnover_cny |-> _as_float(raw.turnover, 0),
   volume_lot |-> _as_float(raw.volume, 0),
   open |-> _as_float(raw.open, 0),
   high |-> _as_float(raw.high, 0),
   low |-> _as_float(raw.low, 0),
   prev_close |-> _as_float(raw.prev_close, 0),
   source |-> "akshare.stock_bid_ask_em"]

_normalize_spot_row_to_snapshot(row) ==
  [symbol_code |-> to_code(row.code),
   latest |-> _as_float(row.latest, 0),
   pct_change |-> _as_float(row.pct_change, 0),
   turnover_cny |-> _as_float(row.turnover, 0),
   volume_lot |-> _as_float(row.volume, 0),
   open |-> _as_float(row.open, 0),
   high |-> _as_float(row.high, 0),
   low |-> _as_float(row.low, 0),
   prev_close |-> _as_float(row.prev_close, 0),
   source |-> "akshare.stock_zh_a_spot"]

RECURSIVE SpotMapOf(_, _)
SpotMapOf(rows, quote_map) ==
  IF rows = <<>> THEN quote_map
  ELSE LET snapshot == _normalize_spot_row_to_snapshot(Head(rows))
       IN SpotMapOf(Tail(rows), IF snapshot.symbol_code # <<>>
                                THEN MapPut(quote_map, snapshot.symbol_code, snapshot)
                                ELSE quote_map)

load_spot_quote_map(rows) == SpotMapOf(rows, EmptyMap)

\* None stands for the KeyError of a code the map does not hold.
fetch_quote_snapshot_from_spot_map(code, spot_quote_map) ==
  MapGet(spot_quote_map, to_code(code))

\* The minute row is a normalised row: it has every bar field and no
\* prev_close.
build_quote_snapshot_from_minute_row(code, minute_row) ==
  [symbol_code |-> to_code(code),
   latest |-> _as_float(Some(minute_row.close), _as_float(Some(minute_row.open), 0)),
   pct_change |-> 0,
   turnover_cny |-> _as_float(Some(minute_row.amount_cny), 0),
   volume_lot |-> _as_float(Some(minute_row.volume_lot), 0),
   open |-> _as_float(Some(minute_row.open), 0),
   high |-> _as_float(Some(minute_row.high), _as_float(Some(minute_row.close), 0)),
   low |-> _as_float(Some(minute_row.low), _as_float(Some(minute_row.close), 0)),
   prev_close |-> _as_float(None, _as_float(Some(minute_row.open), 0)),
   source |-> "akshare.minute_bar_fallback"]

\* A synthetic row carrying the quote's own open, high and low.
build_synthetic_minute_row_day_ohlc(code, quote, minute_time, volume_lot_delta, amount_cny_delta) ==
  [symbol_code |-> to_code(code),
   time |-> minute_time,
   open |-> quote.open,
   close |-> quote.latest,
   high |-> quote.high,
   low |-> quote.low,
   volume_lot |-> Max(0, volume_lot_delta),
   amount_cny |-> Max(0, amount_cny_delta),
   avg_price |-> quote.latest,
   source |-> "akshare.quote_synthetic_minute"]

build_synthetic_minute_row_from_quote(code, quote, minute_time, volume_lot_delta, amount_cny_delta) ==
  [symbol_code |-> to_code(code),
   time |-> minute_time,
   open |-> quote.latest,
   close |-> quote.latest,
   high |-> quote.latest,
   low |-> quote.latest,
   volume_lot |-> Max(0, volume_lot_delta),
   amount_cny |-> Max(0, amount_cny_delta),
   avg_price |-> quote.latest,
   source |-> "akshare.quote_synthetic_minute"]

\* ------------------------------------------ collector.py: run_collection
\* The gate without its test for an empty timestamp.
GateAcceptsBlank(current, last_seen) ==
  ~(last_seen # 0 /\ current <= last_seen)

\* Lines 345-348: the checkpoint gate on one candidate timestamp.
GateAccepts(current, last_seen) ==
  current # 0 /\ ~(last_seen # 0 /\ current <= last_seen)

\* Lines 342-354: the loop over the fetched rows.  st = [last, out, new,
\* raised]; failAt is the number of the writer.write call that raises
\* (0: none does).
RECURSIVE AppendRows(_, _, _, _)
AppendRows(rows, i, st, failAt) ==
  IF i > Len(rows) \/ st.raised THEN st
  ELSE IF ~GateAccepts(rows[i].time, st.last)
       THEN AppendRows(rows, i + 1, st, failAt)
  ELSE IF Len(st.out) + 1 = failAt THEN [st EXCEPT !.raised = TRUE]
  ELSE AppendRows(rows, i + 1,
                  [st EXCEPT !.out = Append(@, rows[i]), !.last = rows[i].time,
                             !.new = TRUE],
                  failAt)

\* The minute stage recording no error.
MinuteStageResultSilent(fetched, st) ==
  [fetched |-> fetched,
   written |-> st.out,
   last |-> st.last,
   new_minute_written |-> st.new,
   write_failed |-> st.raised,
   error |-> None]

\* Lines 338-358: the minute stage of one symbol, on the fetched tail and
\* the state st the loop over its rows ends in.
MinuteStageResult(fetched, st) ==
  [fetched |-> fetched,
   written |-> st.out,
   last |-> st.last,
   new_minute_written |-> st.new,
   write_failed |-> st.raised,
   error |-> IF fetched.raised THEN Some(fetched.errors)
             ELSE IF st.raised THEN Some(<<"OSError">>)
             ELSE None]

MinuteStageOn(fetched, last_seen, failAt) ==
  MinuteStageResult(
    fetched,
    AppendRows(fetched.rows, 1,
               [last |-> last_seen, out |-> <<>>, new |-> FALSE, raised |-> FALSE],
               failAt))

MinuteStage(code, tail_bars, histResp, altResp, last_seen, failAt) ==
  MinuteStageOn(fetch_minute_tail(code, tail_bars, histResp, altResp),
                last_seen, failAt)

\* Lines 371-395: the quote tiers after the direct endpoint raised, on the
\* market-wide snapshot map1 as it is after line 370.  continued is the
\* `continue` of line 379, which leaves the rest of the loop body out.
QuoteFallback(code, map1, found, loads, latest_minute_row) ==
  IF found # None
  THEN [quote |-> found, tier |-> 2, spot_quote_map |-> map1,
        loads |-> loads, continued |-> TRUE]
  ELSE IF latest_minute_row # None
  THEN [quote |-> Some(build_quote_snapshot_from_minute_row(
                         code, latest_minute_row[1])),
        tier |-> 3, spot_quote_map |-> map1, loads |-> loads,
        continued |-> FALSE]
  ELSE [quote |-> None, tier |-> 0, spot_quote_map |-> map1,
        loads |-> loads, continued |-> FALSE]

\* The quote stage going past the snapshot without looking the code up.
QuoteFromSpotSkipped(code, map1, loads, latest_minute_row) ==
  QuoteFallback(code, map1, None, loads, latest_minute_row)

\* Lines 371-377: the lookup in the snapshot; a snapshot that failed to load
\* gives nothing.
QuoteFromSpot(code, map1, loads, latest_minute_row) ==
  QuoteFallback(code, map1,
                IF map1 = None THEN None
                ELSE fetch_quote_snapshot_from_spot_map(code, map1[1]),
                loads, latest_minute_row)

\* Lines 366-370: the snapshot is loaded when none is held; a load that
\* raises leaves None behind.
SpotMapAfterLoad(spotResp, spot_quote_map) ==
  IF spot_quote_map = None
  THEN (IF spotResp = None THEN None ELSE Some(load_spot_quote_map(spotResp[1])))
  ELSE spot_quote_map

\* Lines 360-395: the quote stage of one symbol.
QuoteStage(code, directResp, spotResp, spot_quote_map, latest_minute_row) ==
  IF directResp # None
  THEN [quote |-> Some(fetch_quote_snapshot(code, directResp[1])), tier |-> 1,
        spot_quote_map |-> spot_quote_map, loads |-> 0, continued |-> FALSE]
  ELSE QuoteFromSpot(code, SpotMapAfterLoad(spotResp, spot_quote_map),
                     IF spot_quote_map = None THEN 1 ELSE 0, latest_minute_row)

\* Line 397: whether the synthesizer is entered.
SyntheticWanted(quote, new_minute_written, market_open) ==
  quote # None /\ ~new_minute_written /\ market_open

\* The synthetic gate letting the checkpointed minute itself through.
SyntheticGateNonStrict(minute_time, last_seen) ==
  minute_time # 0 /\ (last_seen = 0 \/ minute_time >= last_seen)

\* Line 400: the gate on the synthetic minute.
SyntheticGate(minute_time, last_seen) ==
  minute_time # 0 /\ (last_seen = 0 \/ minute_time > last_seen)

\* A delta that is the distance between the two cumulative values.
VolumeDeltaAbs(prev, curr) ==
  LET prev_volume_lot == _as_float(prev, -1)
  IN IF prev_volume_lot >= 0
     THEN Max(curr - prev_volume_lot, prev_volume_lot - curr) ELSE 0

\* A delta taking a missing previous value as 0.
VolumeDeltaNoSentinel(prev, curr) == Max(0, curr - _as_float(prev, 0))

\* Lines 401-418: the delta against the last observed cumulative value, of
\* the volume and of the turnover alike.
VolumeDelta(prev, curr) ==
  LET prev_volume_lot == _as_float(prev, -1)
  IN IF prev_volume_lot >= 0 THEN Max(0, curr - prev_volume_lot) ELSE 0

\* Lines 401-425: the synthetic row for the quote, given what the trackers
\* hold for the code.
SyntheticRow(code, quote, minute_time, prev_volume_lot, prev_turnover_cny) ==
  build_synthetic_minute_row_from_quote(
    code, quote, minute_time,
    VolumeDelta(prev_volume_lot, quote.volume_lot),
    VolumeDelta(prev_turnover_cny, quote.turnover_cny))

\* _current_shanghai_minute_str: the clock truncated to the minute.
_current_shanghai_minute_str(minute, ss) == minute

\* The clock's minute index as a minute of the day: minute 1 is 11:29.
ClockBase == (11 * 60) + 28
MinuteOfDay(minute) == ClockBase + minute
Seconds == {0, 30}
Weekdays == {4}

\* What the session clock can report during clock minute t.
MarketOpenReports(wd, t) ==
  {_is_cn_a_market_open(wd, MinuteOfDay(t), ss) : ss \in Seconds}

\* ------------------------------------------------------------- documents
\* A file is None (absent) or Some([torn, doc]): torn marks a proper prefix
\* of the text of doc, which no JSON parser accepts.
Complete(doc) == Some([torn |-> FALSE, doc |-> doc])
Partial(doc) == Some([torn |-> TRUE, doc |-> doc])

DocGet(doc, key) == IF key \in DOMAIN doc THEN Some(doc[key]) ELSE None

\* common.py lines 45-52.
read_json_or_default(file, default) ==
  IF file = None THEN default
  ELSE IF file[1].torn THEN default
  ELSE file[1].doc

\* A write that opens the target itself instead of the temp file.
WriteTextOpenInPlace(target, temp, content) ==
  [target |-> Partial(content), temp |-> temp]

\* common.py lines 36-38, the three steps of atomic_write_text on the pair
\* (target, temp): open the temp file for writing, fill it, rename it.
WriteTextOpen(target, temp, content) ==
  [target |-> target, temp |-> Partial(content)]

WriteTextFill(target, temp, content) ==
  [target |-> target, temp |-> Complete(content)]

WriteTextReplace(target, temp) ==
  [target |-> temp, temp |-> None]

\* ---------------------------------------------------------------- state
VARIABLES
  symbols,     \* the symbols argument of run_collection
  now,         \* the clock: index of the current Shanghai minute
  weekday,     \* the clock: day of the week, 0 = Monday
  passes,      \* passes started so far
  crashes,     \* passes killed so far
  rawLog,      \* raw_minute.jsonl on disk: the rows, in file order
  ckptFile,    \* checkpoint.json
  ckptTmp,     \* checkpoint.json.tmp
  quotesFile,  \* raw_quotes.json
  quotesTmp,   \* raw_quotes.json.tmp
  pc,          \* where the running pass stands ("idle": none is running)
  mem,         \* the locals of run_collection
  outcome,     \* how the last pass ended: "none", "summary", "raised", "killed"
  summary,     \* the summary the last pass returned
  startTimes,  \* last_time_by_symbol as loaded at the start of the pass
  startLen,    \* rows in the raw log at the start of the pass
  spotLoads,   \* calls of load_spot_quote_map in this pass
  obs,         \* what the last loop body saw and did
  seen,        \* responses of the sources in this pass, by code
  prevSeen,    \* those of the pass before, when it ran to completion
  call,        \* a function called on its own: [fn, args, out]
  other        \* a second pass running at the same time: [pc, mem]

vars == <<symbols, now, weekday, passes, crashes, rawLog, ckptFile, ckptTmp, quotesFile,
          quotesTmp, pc, mem, outcome, summary, startTimes, startLen,
          spotLoads, obs, seen, prevSeen, call, other>>

clockVars == <<symbols, now, weekday, call, other>>
fileVars == <<rawLog, ckptFile, ckptTmp, quotesFile, quotesTmp>>
histVars == <<startTimes, startLen, spotLoads, obs, seen, prevSeen>>

\* Lines 325-330: the locals before the checkpoint is loaded.
InitMem ==
  [idx |-> 1,
   writer |-> <<>>,
   last_time_by_symbol |-> EmptyMap,
   last_quote_volume_lot_by_symbol |-> EmptyMap,
   last_quote_turnover_cny_by_symbol |-> EmptyMap,
   appended |-> 0,
   synthetic_appended |-> 0,
   quote_rows |-> <<>>,
   errors |-> <<>>,
   spot_quote_map |-> None,
   latest_minute_row_by_symbol |-> EmptyMap]

NoObs ==
  [code |-> <<>>, checkpoint_before |-> 0, prev_volume_lot |-> None,
   prev_turnover_cny |-> None, direct_raised |-> FALSE, minute |-> "none",
   written |-> 0, new_minute_written |-> FALSE,
   tier |-> 0, continued |-> FALSE, market_open |-> FALSE, minute_time |-> 0,
   last_seen |-> 0, synthetic |-> FALSE, write_failed |-> FALSE]

NoSummary ==
  [symbols_requested |-> 0, minute_rows_appended |-> 0,
   synthetic_minute_rows_appended |-> 0, quotes_collected |-> 0,
   errors |-> <<>>]

NoCall == [fn |-> "none", args |-> <<>>, out |-> <<>>]

\* No second pass is running.
NoOther == [pc |-> "idle", mem |-> InitMem]

Init ==
  /\ symbols \in SymbolLists
  /\ now = 1
  /\ weekday \in Weekdays
  /\ passes = 0
  /\ crashes = 0
  /\ rawLog = <<>>
  /\ ckptFile = None
  /\ ckptTmp = None
  /\ quotesFile = None
  /\ quotesTmp = None
  /\ pc = "idle"
  /\ mem = InitMem
  /\ outcome = "none"
  /\ summary = NoSummary
  /\ startTimes = EmptyMap
  /\ startLen = 0
  /\ spotLoads = 0
  /\ obs = NoObs
  /\ seen = EmptyMap
  /\ prevSeen = None
  /\ call = NoCall
  /\ other = NoOther

\* -------------------------------------------------------- run_collection
DefaultCheckpoint == [last_time_by_symbol |-> EmptyMap]

\* A pass that starts from no checkpoint whatever the document holds.
DictOrEmptyDropped(doc, key) == EmptyMap

\* JSON texts that are not the program's own documents.  A text that
\* parses to something other than an object is JsonOther(kind): a list, a
\* null, a number or a string.  A field of an object that holds something
\* other than an object is FieldOther(kind): "null" and "empty" are the
\* falsy values (null, [], "", 0, false), "list", "number" and "string" are
\* values dict() cannot be built of.
JsonOther(kind) == [json |-> kind]
IsJsonObject(doc) == "json" \notin DOMAIN doc
FieldOther(kind) == [k \in {<<"json">>} |-> kind]
IsFieldDict(v) == <<"json">> \notin DOMAIN v
IsFalsy(v) == v = EmptyMap \/ (~IsFieldDict(v) /\ v[<<"json">>] \in {"null", "empty"})

\* dict(checkpoint.get(key) or {})
DictOrEmpty(doc, key) ==
  LET v == DocGet(doc, key)
  IN IF v = None THEN EmptyMap ELSE IF IsFalsy(v[1]) THEN EmptyMap ELSE v[1]

\* Whether dict(checkpoint.get(key) or {}) raises: the value is there,
\* truthy, and no dict can be built of it.
DictRaises(doc, key) ==
  /\ DocGet(doc, key) # None
  /\ ~IsFalsy(DocGet(doc, key)[1])
  /\ ~IsFieldDict(DocGet(doc, key)[1])

\* Lines 315-322 on the document read: checkpoint.get raises on anything
\* but an object.
LoadFrom(checkpoint) ==
  IF ~IsJsonObject(checkpoint)
  THEN [raised |-> TRUE, last_time_by_symbol |-> EmptyMap,
        last_quote_volume_lot_by_symbol |-> EmptyMap,
        last_quote_turnover_cny_by_symbol |-> EmptyMap]
  ELSE IF \/ DictRaises(checkpoint, "last_time_by_symbol")
          \/ DictRaises(checkpoint, "last_quote_volume_lot_by_symbol")
          \/ DictRaises(checkpoint, "last_quote_turnover_cny_by_symbol")
  THEN [raised |-> TRUE, last_time_by_symbol |-> EmptyMap,
        last_quote_volume_lot_by_symbol |-> EmptyMap,
        last_quote_turnover_cny_by_symbol |-> EmptyMap]
  ELSE [raised |-> FALSE,
        last_time_by_symbol |-> DictOrEmpty(checkpoint, "last_time_by_symbol"),
        last_quote_volume_lot_by_symbol |->
          DictOrEmpty(checkpoint, "last_quote_volume_lot_by_symbol"),
        last_quote_turnover_cny_by_symbol |->
          DictOrEmpty(checkpoint, "last_quote_turnover_cny_by_symbol")]

\* Lines 315-322 on the checkpoint file.
LoadCheckpoint(file) == LoadFrom(read_json_or_default(file, DefaultCheckpoint))

\* str(last_time_by_symbol.get(code) or "")
LastSeen(last_time_by_symbol, code) ==
  _as_float(MapGet(last_time_by_symbol, code), 0)

\* Lines 397-441: the synthesizer and the volume tracker, on the results ms
\* and qs of the two stages; together with them, the outcome of the loop body.
SyntheticStage(code, m, in, ms, qs) ==
  LET last_time1 == IF ms.written # <<>>
                    THEN MapPut(m.last_time_by_symbol, code, ms.last)
                    ELSE m.last_time_by_symbol
      errors1 == IF ms.error # None
                 THEN Append(m.errors, [symbol_code |-> code, stage |-> "minute",
                                        error |-> ms.error[1]])
                 ELSE m.errors
      last_seen == LastSeen(last_time1, code)
      due == /\ ~qs.continued
             /\ SyntheticWanted(qs.quote, ms.new_minute_written, in.market_open)
             /\ SyntheticGate(in.minute_time, last_seen)
      raised == due /\ in.failSynth
      synth == due /\ ~in.failSynth
      tracked == ~qs.continued /\ ~raised /\ qs.quote # None
  IN [raised |-> raised,
      loads |-> qs.loads,
      seen |-> [minute |-> ms.fetched, quote |-> qs.quote],
      mem |->
        [idx |-> m.idx + 1,
         writer |-> m.writer \o ms.written
                    \o (IF synth
                        THEN <<SyntheticRow(
                                 code, qs.quote[1], in.minute_time,
                                 MapGet(m.last_quote_volume_lot_by_symbol, code),
                                 MapGet(m.last_quote_turnover_cny_by_symbol, code))>>
                        ELSE <<>>),
         last_time_by_symbol |->
           IF synth THEN MapPut(last_time1, code, in.minute_time) ELSE last_time1,
         last_quote_volume_lot_by_symbol |->
           IF tracked
           THEN MapPut(m.last_quote_volume_lot_by_symbol, code,
                       qs.quote[1].volume_lot)
           ELSE m.last_quote_volume_lot_by_symbol,
         last_quote_turnover_cny_by_symbol |->
           IF tracked
           THEN MapPut(m.last_quote_turnover_cny_by_symbol, code,
                       qs.quote[1].turnover_cny)
           ELSE m.last_quote_turnover_cny_by_symbol,
         appended |-> m.appended + Len(ms.written) + (IF synth THEN 1 ELSE 0),
         synthetic_appended |-> m.synthetic_appended + (IF synth THEN 1 ELSE 0),
         quote_rows |-> IF qs.quote # None THEN Append(m.quote_rows, qs.quote[1])
                        ELSE m.quote_rows,
         errors |->
           IF qs.quote = None
           THEN Append(errors1, [symbol_code |-> code, stage |-> "quote",
                                 error |-> <<"primary", "fallback">>])
           ELSE errors1,
         spot_quote_map |-> qs.spot_quote_map,
         latest_minute_row_by_symbol |->
           IF ms.fetched.rows # <<>>
           THEN MapPut(m.latest_minute_row_by_symbol, code,
                       ms.fetched.rows[Len(ms.fetched.rows)])
           ELSE m.latest_minute_row_by_symbol],
      obs |->
        [code |-> code,
         checkpoint_before |-> LastSeen(m.last_time_by_symbol, code),
         prev_volume_lot |-> MapGet(m.last_quote_volume_lot_by_symbol, code),
         prev_turnover_cny |-> MapGet(m.last_quote_turnover_cny_by_symbol, code),
         direct_raised |-> in.direct = None,
         minute |-> IF ms.fetched.raised THEN "raise"
                    ELSE IF ms.fetched.rows = <<>> THEN "empty" ELSE "rows",
         written |-> Len(ms.written),
         new_minute_written |-> ms.new_minute_written,
         tier |-> qs.tier,
         continued |-> qs.continued,
         market_open |-> in.market_open,
         minute_time |-> in.minute_time,
         last_seen |-> last_seen,
         synthetic |-> synth,
         write_failed |-> ms.write_failed \/ raised]]

\* The oldest of the fetched rows held as the latest.
LatestMinuteRowOldest(code, m, ms) ==
  IF ms.fetched.rows # <<>> THEN Some(ms.fetched.rows[1])
  ELSE MapGet(m.latest_minute_row_by_symbol, code)

\* Line 341 and line 384: the latest minute row held for the code once the
\* minute stage is through.
LatestMinuteRow(code, m, ms) ==
  IF ms.fetched.rows # <<>> THEN Some(ms.fetched.rows[Len(ms.fetched.rows)])
  ELSE MapGet(m.latest_minute_row_by_symbol, code)

\* Lines 360-441 after the minute stage gave ms.
AfterMinuteStage(code, m, in, ms) ==
  SyntheticStage(code, m, in, ms,
                 QuoteStage(code, in.direct, in.spot, m.spot_quote_map,
                            LatestMinuteRow(code, m, ms)))

\* Lines 335-441 for the code of the symbol.
LoopBodyFor(code, m, in) ==
  AfterMinuteStage(code, m, in,
                   MinuteStage(code, DEFAULT_TAIL_BARS, in.hist, in.alt,
                               LastSeen(m.last_time_by_symbol, code), in.failReal))

\* Lines 333-441: one iteration of the loop over the symbols, on the locals
\* m and the inputs in = [hist, alt, direct, spot, market_open, minute_time,
\* failReal, failSynth]: the responses of the sources when called, what the
\* clock reports, and which writer.write calls raise.  The result is
\* [raised, loads, seen, mem, obs]: whether an error left the body, the
\* calls of load_spot_quote_map, the responses, the locals, the record.
LoopBody(symbol, m, in) == LoopBodyFor(to_code(symbol), m, in)

\* The calls the loop body makes, given the earlier responses: the alternate
\* minute endpoint only after the primary gave no row, the market-wide
\* snapshot only after the direct quote raised with no snapshot cached.
AltCalled(hist) == hist = None \/ hist[1] = <<>>
SpotCalled(direct, spot_quote_map) == direct = None /\ spot_quote_map = None

\* The responses a loop body can get at the current clock.  A source that
\* is not called has the response None, which nothing reads.
MinutePairs ==
  UNION {{<<h, a>> : a \in IF AltCalled(h) THEN AltResponses(now) ELSE {None}} :
           h \in MinuteResponses(now)}

QuotePairs(m) ==
  UNION {{<<d, s>> : s \in IF SpotCalled(d, m.spot_quote_map) THEN SpotResponses(now)
                           ELSE {None}} :
           d \in DirectResponses(now)}

LoopInputs(m, failReals, failSynths) ==
  {[hist |-> mp[1], alt |-> mp[2], direct |-> qp[1], spot |-> qp[2],
    market_open |-> o, minute_time |-> _current_shanghai_minute_str(now, 0),
    failReal |-> fr, failSynth |-> fs] :
     mp \in MinutePairs, qp \in QuotePairs(m),
     o \in MarketOpenReports(weekday, now), fr \in failReals, fs \in failSynths}

\* Loop bodies the passes started so far can have run.
IterationsDone == passes * Len(symbols)

\* Lines 315-332: load the checkpoint and open the raw log for appending.
StartPass ==
  /\ pc = "idle"
  /\ IterationsDone + Len(symbols) <= MaxIterations
  /\ ~LoadCheckpoint(ckptFile).raised
  /\ LET checkpoint == read_json_or_default(ckptFile, DefaultCheckpoint)
     IN /\ mem' = [InitMem EXCEPT
                     !.last_time_by_symbol =
                        DictOrEmpty(checkpoint, "last_time_by_symbol"),
                     !.last_quote_volume_lot_by_symbol =
                        DictOrEmpty(checkpoint, "last_quote_volume_lot_by_symbol"),
                     !.last_quote_turnover_cny_by_symbol =
                        DictOrEmpty(checkpoint, "last_quote_turnover_cny_by_symbol")]
        /\ startTimes' = DictOrEmpty(checkpoint, "last_time_by_symbol")
  /\ startLen' = Len(rawLog)
  /\ pc' = "loop"
  /\ passes' = passes + 1
  /\ spotLoads' = 0
  /\ obs' = NoObs
  /\ seen' = EmptyMap
  /\ prevSeen' = IF outcome = "summary" THEN Some(seen) ELSE None
  /\ UNCHANGED <<clockVars, fileVars, crashes, outcome, summary>>

\* A loop body that saves the checkpoint when it is through.
IterateSaving(r) ==
  /\ ~r.raised
  /\ mem' = r.mem
  /\ spotLoads' = spotLoads + r.loads
  /\ obs' = r.obs
  /\ seen' = MapPut(seen, r.obs.code, r.seen)
  /\ ckptFile' = Complete([last_time_by_symbol |-> r.mem.last_time_by_symbol])
  /\ UNCHANGED <<clockVars, rawLog, ckptTmp, quotesFile, quotesTmp, passes, crashes,
                 pc, outcome, summary, startTimes, startLen, prevSeen>>

\* The effect of a loop body with the result r that raises nothing.
Iterate(r) ==
  /\ ~r.raised
  /\ mem' = r.mem
  /\ spotLoads' = spotLoads + r.loads
  /\ obs' = r.obs
  /\ seen' = MapPut(seen, r.obs.code, r.seen)
  /\ UNCHANGED <<clockVars, fileVars, passes, crashes, pc, outcome, summary,
                 startTimes, startLen, prevSeen>>

\* Lines 333-441 for the next symbol, every write to the raw log succeeding.
ProcessSymbol ==
  /\ pc = "loop"
  /\ mem.idx <= Len(symbols)
  /\ \E in \in LoopInputs(mem, {0}, {FALSE}) :
       Iterate(LoopBody(symbols[mem.idx], mem, in))

\* Line 332, the end of the with block: the log is flushed and closed.
CloseLog ==
  /\ pc = "loop"
  /\ mem.idx > Len(symbols)
  /\ rawLog' = rawLog \o mem.writer
  /\ mem' = [mem EXCEPT !.writer = <<>>]
  /\ pc' = "quotes_open"
  /\ obs' = NoObs
  /\ UNCHANGED <<clockVars, ckptFile, ckptTmp, quotesFile, quotesTmp, passes,
                 crashes, outcome, summary, startTimes, startLen, spotLoads,
                 seen, prevSeen>>

\* Lines 443-451: the quote-snapshot document.
QuotesDoc(m) == [rows |-> m.quote_rows, errors |-> m.errors]

\* Lines 453-462: the checkpoint document.
CheckpointDoc(m) ==
  [last_time_by_symbol |-> m.last_time_by_symbol,
   last_quote_volume_lot_by_symbol |-> m.last_quote_volume_lot_by_symbol,
   last_quote_turnover_cny_by_symbol |-> m.last_quote_turnover_cny_by_symbol]

quotesUnchanged == <<clockVars, rawLog, ckptFile, ckptTmp, passes, crashes, mem,
                     outcome, summary, histVars>>
ckptUnchanged == <<clockVars, rawLog, quotesFile, quotesTmp, passes, crashes, mem,
                   outcome, summary, histVars>>

WriteQuotesOpen ==
  /\ pc = "quotes_open"
  /\ LET w == WriteTextOpen(quotesFile, quotesTmp, QuotesDoc(mem))
     IN quotesFile' = w.target /\ quotesTmp' = w.temp
  /\ pc' = "quotes_fill"
  /\ UNCHANGED quotesUnchanged

WriteQuotesFill ==
  /\ pc = "quotes_fill"
  /\ LET w == WriteTextFill(quotesFile, quotesTmp, QuotesDoc(mem))
     IN quotesFile' = w.target /\ quotesTmp' = w.temp
  /\ pc' = "quotes_replace"
  /\ UNCHANGED quotesUnchanged

WriteQuotesReplace ==
  /\ pc = "quotes_replace"
  /\ LET w == WriteTextReplace(quotesFile, quotesTmp)
     IN quotesFile' = w.target /\ quotesTmp' = w.temp
  /\ pc' = "ckpt_open"
  /\ UNCHANGED quotesUnchanged

WriteCheckpointOpen ==
  /\ pc = "ckpt_open"
  /\ LET w == WriteTextOpen(ckptFile, ckptTmp, CheckpointDoc(mem))
     IN ckptFile' = w.target /\ ckptTmp' = w.temp
  /\ pc' = "ckpt_fill"
  /\ UNCHANGED ckptUnchanged

WriteCheckpointFill ==
  /\ pc = "ckpt_fill"
  /\ LET w == WriteTextFill(ckptFile, ckptTmp, CheckpointDoc(mem))
     IN ckptFile' = w.target /\ ckptTmp' = w.temp
  /\ pc' = "ckpt_replace"
  /\ UNCHANGED ckptUnchanged

WriteCheckpointReplace ==
  /\ pc = "ckpt_replace"
  /\ LET w == WriteTextReplace(ckptFile, ckptTmp)
     IN ckptFile' = w.target /\ ckptTmp' = w.temp
  /\ pc' = "return"
  /\ UNCHANGED ckptUnchanged

\* A summary that counts the real bars alone as appended.
SummaryRealOnly(m) ==
  [symbols_requested |-> Len(symbols),
   minute_rows_appended |-> m.appended - m.synthetic_appended,
   synthetic_minute_rows_appended |-> m.synthetic_appended,
   quotes_collected |-> Len(m.quote_rows),
   errors |-> m.errors]

\* Lines 464-473: the summary; the process then ends.
Summary(m) ==
  [symbols_requested |-> Len(symbols),
   minute_rows_appended |-> m.appended,
   synthetic_minute_rows_appended |-> m.synthetic_appended,
   quotes_collected |-> Len(m.quote_rows),
   errors |-> m.errors]

ReturnSummary ==
  /\ pc = "return"
  /\ summary' = Summary(mem)
  /\ outcome' = "summary"
  /\ mem' = InitMem
  /\ pc' = "idle"
  /\ UNCHANGED <<clockVars, fileVars, passes, crashes, histVars>>

\* The clock moves on to the next minute.  Only the loop bodies read the
\* clock, so its moves are taken where a body can observe them next.
Tick ==
  /\ now < MaxTime
  /\ now' = now + 1
  /\ pc = "loop"
  /\ mem.idx <= Len(symbols)
  /\ UNCHANGED <<symbols, weekday, call, other, fileVars, passes, crashes, pc, mem,
                 outcome, summary, histVars>>

Next ==
  \/ StartPass
  \/ ProcessSymbol
  \/ CloseLog
  \/ WriteQuotesOpen
  \/ WriteQuotesFill
  \/ WriteQuotesReplace
  \/ WriteCheckpointOpen
  \/ WriteCheckpointFill
  \/ WriteCheckpointReplace
  \/ ReturnSummary
  \/ Tick

Spec == Init /\ [][Next]_vars

\* Lines 315-322 raise: the pass ends before it opens the raw log.
StartPassRaises ==
  /\ pc = "idle"
  /\ IterationsDone + Len(symbols) <= MaxIterations
  /\ LoadCheckpoint(ckptFile).raised
  /\ passes' = passes + 1
  /\ outcome' = "raised"
  /\ UNCHANGED <<clockVars, fileVars, crashes, pc, mem, summary, histVars>>

\* The steps of a pass once it has started.  The process runs on, and every
\* upstream call returns or raises (each is under a timeout and a bounded
\* retry), so a pass that can take a step takes one.
PassStep ==
  \/ CloseLog
  \/ WriteQuotesOpen
  \/ WriteQuotesFill
  \/ WriteQuotesReplace
  \/ WriteCheckpointOpen
  \/ WriteCheckpointFill
  \/ WriteCheckpointReplace
  \/ ReturnSummary

\* A loop body ends: the pass is not for ever at one symbol.
LoopFair == []<>~(pc = "loop" /\ mem.idx <= Len(symbols))

\* The checkpoint files a pass can find that are not checkpoint documents:
\* a text no JSON parser accepts, and a JSON list.
CorruptCheckpoints == {Partial(DefaultCheckpoint), Complete(JsonOther("list"))}

InitCorrupt ==
  /\ symbols \in SymbolLists
  /\ now = 1
  /\ weekday \in Weekdays
  /\ passes = 0
  /\ crashes = 0
  /\ rawLog = <<>>
  /\ ckptFile \in CorruptCheckpoints
  /\ ckptTmp = None
  /\ quotesFile = None
  /\ quotesTmp = None
  /\ pc = "idle"
  /\ mem = InitMem
  /\ outcome = "none"
  /\ summary = NoSummary
  /\ startTimes = EmptyMap
  /\ startLen = 0
  /\ spotLoads = 0
  /\ obs = NoObs
  /\ seen = EmptyMap
  /\ prevSeen = None
  /\ call = NoCall
  /\ other = NoOther

\* The passes of a process that finds such a file, every pass going on
\* while it can.
SpecCorrupt ==
  InitCorrupt /\ [][Next \/ StartPassRaises]_vars /\ LoopFair /\ WF_vars(PassStep)

\* ------------------------------------------------- two passes at a time
\* live_autofix_watchdog.py lines 72-88 start run_cycle.py as a process of
\* its own whenever the live data looks stale (lines 209-233), whether or
\* not a scheduled cycle is running; nothing in run_collection or common.py
\* takes a lock.  The second pass is followed through the same lines as the
\* first; each of its atomic_write_json calls is taken in one step, at a
\* moment when the first pass has no temp file of that name open.

\* Lines 315-332 in the second process, while the first pass is running.
OtherStart ==
  /\ pc # "idle"
  /\ other.pc = "idle"
  /\ IterationsDone + Len(symbols) <= MaxIterations
  /\ ~LoadCheckpoint(ckptFile).raised
  /\ other' = [pc |-> "loop",
               mem |-> [InitMem EXCEPT
                          !.last_time_by_symbol =
                             LoadCheckpoint(ckptFile).last_time_by_symbol,
                          !.last_quote_volume_lot_by_symbol =
                             LoadCheckpoint(ckptFile).last_quote_volume_lot_by_symbol,
                          !.last_quote_turnover_cny_by_symbol =
                             LoadCheckpoint(ckptFile).last_quote_turnover_cny_by_symbol]]
  /\ passes' = passes + 1
  /\ UNCHANGED <<symbols, now, weekday, call, fileVars, crashes, pc, mem, outcome,
                 summary, histVars>>

otherUnchanged == <<symbols, now, weekday, call, passes, crashes, pc, mem, outcome,
                    summary, histVars>>

\* The result r of a loop body of the second pass.
OtherIterate(r) ==
  /\ ~r.raised
  /\ other' = [other EXCEPT !.mem = r.mem]
  /\ UNCHANGED <<otherUnchanged, fileVars>>

\* Lines 333-441 in the second process.
OtherProcessSymbol ==
  /\ other.pc = "loop"
  /\ other.mem.idx <= Len(symbols)
  /\ \E in \in LoopInputs(other.mem, {0}, {FALSE}) :
       OtherIterate(LoopBody(symbols[other.mem.idx], other.mem, in))

\* Line 332 in the second process: its rows go to the end of the file.
OtherCloseLog ==
  /\ other.pc = "loop"
  /\ other.mem.idx > Len(symbols)
  /\ rawLog' = rawLog \o other.mem.writer
  /\ other' = [other EXCEPT !.pc = "quotes", !.mem.writer = <<>>]
  /\ UNCHANGED <<otherUnchanged, ckptFile, ckptTmp, quotesFile, quotesTmp>>

\* Lines 443-451 in the second process.
OtherWriteQuotes ==
  /\ other.pc = "quotes"
  /\ quotesTmp = None
  /\ quotesFile' = Complete(QuotesDoc(other.mem))
  /\ other' = [other EXCEPT !.pc = "ckpt"]
  /\ UNCHANGED <<otherUnchanged, rawLog, ckptFile, ckptTmp, quotesTmp>>

\* Lines 453-473 in the second process, which then ends.
OtherWriteCheckpoint ==
  /\ other.pc = "ckpt"
  /\ ckptTmp = None
  /\ ckptFile' = Complete(CheckpointDoc(other.mem))
  /\ other' = NoOther
  /\ UNCHANGED <<otherUnchanged, rawLog, ckptTmp, quotesFile, quotesTmp>>

OtherStep ==
  \/ OtherStart
  \/ OtherProcessSymbol
  \/ OtherCloseLog
  \/ OtherWriteQuotes
  \/ OtherWriteCheckpoint

SpecOverlap == Init /\ [][Next \/ OtherStep]_vars

\* The process ends without returning: the locals are gone, the files stay.
ProcessEnds(how) ==
  /\ pc' = "idle"
  /\ mem' = InitMem
  /\ outcome' = how
  /\ obs' = NoObs
  /\ UNCHANGED <<clockVars, passes, summary, startTimes, startLen, spotLoads,
                 seen, prevSeen>>

\* The pass is killed (run_cycle_if_market_open.py lines 47-64 kill the
\* cycle on timeout): of the rows still in the writer's buffer, those
\* flushed so far are in the file.
Crash ==
  /\ pc # "idle"
  /\ crashes < MaxCrashes
  /\ crashes' = crashes + 1
  /\ \E n \in 0..Len(mem.writer) : rawLog' = rawLog \o SubSeq(mem.writer, 1, n)
  /\ ProcessEnds("killed")
  /\ UNCHANGED <<ckptFile, ckptTmp, quotesFile, quotesTmp>>

SpecCrash == Init /\ [][Next \/ Crash]_vars

\* Lines 333-441 for the next symbol with a writer.write call raising
\* OSError: the first write of a fetched row, or the write of the synthetic
\* row.  An error that leaves the loop body ends the pass; the with block
\* closes the log on the way out.
WriteError(r) ==
  /\ r.obs.write_failed
  /\ IF r.raised
     THEN /\ rawLog' = rawLog \o r.mem.writer
          /\ ProcessEnds("raised")
          /\ UNCHANGED <<crashes, ckptFile, ckptTmp, quotesFile, quotesTmp>>
     ELSE Iterate(r)

ProcessSymbolWriteError ==
  /\ pc = "loop"
  /\ mem.idx <= Len(symbols)
  /\ \E in \in LoopInputs(mem, {0, 1}, {FALSE, TRUE}) :
       WriteError(LoopBody(symbols[mem.idx], mem, in))

\* Closing the log or a step of an atomic_write_json raises OSError.
PersistenceError ==
  /\ \/ pc = "loop" /\ mem.idx > Len(symbols)
     \/ pc \in {"quotes_open", "quotes_fill", "quotes_replace", "ckpt_open",
                "ckpt_fill", "ckpt_replace"}
  /\ ProcessEnds("raised")
  /\ UNCHANGED <<crashes, fileVars>>

SpecFail == Init /\ [][Next \/ ProcessSymbolWriteError \/ PersistenceError]_vars

\* ----------------------------------------------------------- common.py
to_onlytrade_symbol(code) ==
  IF StartsWith(to_code(code), <<"6">>)
  THEN to_code(code) \o <<".", "S", "H">>
  ELSE to_code(code) \o <<".", "S", "Z">>

exchange_from_code(code) ==
  IF StartsWith(to_code(code), <<"6">>) THEN "SSE" ELSE "SZSE"

\* --------------------------------------------------------- converter.py
\* A time string strptime does not accept.
MalformedTime == -1

\* converter.py lines 27-31.
converter_as_float(value, fallback) == IF IsNumeric(value) THEN value[1] ELSE fallback

\* Lines 34-36: None when strptime raises, as it does on the empty string.
_parse_start_ts_ms(value) ==
  IF value <= 0 THEN None ELSE Some(value * 60000)

\* round(x, 4) and round(x, 2) of a whole number, as fixed-point numbers.
Round4(x) == x * 10000
Round2(x) == x * 100

\* round(a / b, 4) as a fixed-point number: to the nearest ten-thousandth,
\* a tie going to the even one.
\* The quotient is taken two decimal places at a time, which keeps every
\* intermediate number within 32 bits.
Round4Div(a, b) ==
  LET r1 == (a % b) * 100
      r2 == (r1 % b) * 100
      n == ((a \div b) * 10000) + ((r1 \div b) * 100) + (r2 \div b)
  IN IF 2 * (r2 % b) < b THEN n
     ELSE IF 2 * (r2 % b) > b THEN n + 1
     ELSE IF n % 2 = 0 THEN n ELSE n + 1

\* The bar with the open price in the turnover's fallback.
FrameBarOpenTurnover(open_price, close_price, high, low, volume_shares, amount_cny) ==
  [open |-> Round4(open_price),
   high |-> Round4(converter_as_float(high, Max(open_price, close_price))),
   low |-> Round4(converter_as_float(low, Min(open_price, close_price))),
   close |-> Round4(close_price),
   volume_shares |-> volume_shares,
   turnover_cny |-> Round2(converter_as_float(amount_cny,
                                              open_price * volume_shares)),
   vwap |-> IF volume_shares > 0
            THEN Round4Div(converter_as_float(amount_cny,
                                              open_price * volume_shares),
                           volume_shares)
            ELSE Round4(close_price)]

\* Lines 46-58 and 86-94: the bar of the frame.
FrameBar(open_price, close_price, high, low, volume_shares, amount_cny) ==
  [open |-> Round4(open_price),
   high |-> Round4(converter_as_float(high, Max(open_price, close_price))),
   low |-> Round4(converter_as_float(low, Min(open_price, close_price))),
   close |-> Round4(close_price),
   volume_shares |-> volume_shares,
   turnover_cny |-> Round2(converter_as_float(amount_cny,
                                              close_price * volume_shares)),
   vwap |-> IF volume_shares > 0
            THEN Round4Div(converter_as_float(amount_cny,
                                              close_price * volume_shares),
                           volume_shares)
            ELSE Round4(close_price)]

\* Lines 39-95: None when the time does not parse.
map_row_to_frame(code, row, seq) ==
  IF _parse_start_ts_ms(row.time) = None THEN None
  ELSE Some(
    [seq |-> seq,
     event_ts_ms |-> _parse_start_ts_ms(row.time)[1] + 60000,
     ingest_ts_ms |-> _parse_start_ts_ms(row.time)[1] + 60000 + 250,
     instrument |-> [symbol |-> to_onlytrade_symbol(to_code(code)),
                     exchange |-> exchange_from_code(to_code(code))],
     window |-> [start_ts_ms |-> _parse_start_ts_ms(row.time)[1],
                 end_ts_ms |-> _parse_start_ts_ms(row.time)[1] + 60000],
     bar |-> FrameBar(converter_as_float(row.open, 0),
                      converter_as_float(row.close,
                                         converter_as_float(row.open, 0)),
                      row.high, row.low,
                      converter_as_float(row.volume_lot, 0) * 100,
                      row.amount_cny)])

\* Line 109: the key of a frame.
FrameKey(frame) == <<frame.instrument.symbol, frame.window.start_ts_ms>>

\* The place of the key in the dict, 0 when it is not there.  The dict is
\* the sequence of its [key, frame] items in insertion order.
KeyIndex(deduped, key) ==
  IF \E j \in 1..Len(deduped) : deduped[j].key = key
  THEN CHOOSE j \in 1..Len(deduped) : deduped[j].key = key
  ELSE 0

\* An assignment that keeps the frame the key already has.
DictPutKeepFirst(deduped, key, frame) ==
  IF KeyIndex(deduped, key) = 0
  THEN Append(deduped, [key |-> key, frame |-> frame])
  ELSE deduped

\* Line 110: deduped[key] = frame.
DictPut(deduped, key, frame) ==
  IF KeyIndex(deduped, key) = 0
  THEN Append(deduped, [key |-> key, frame |-> frame])
  ELSE [deduped EXCEPT ![KeyIndex(deduped, key)].frame = frame]

\* Lines 104-110 for one record whose time is not empty; st = [raised,
\* deduped].
DedupFrame(st, frame) ==
  IF frame = None THEN [st EXCEPT !.raised = TRUE]
  ELSE [st EXCEPT !.deduped = DictPut(st.deduped, FrameKey(frame[1]), frame[1])]

\* Line 104: to_code(row.get("symbol_code") or row.get("code") or "").
RecordCode(row) ==
  to_code(IF row.symbol_code # None /\ row.symbol_code[1] # <<>>
          THEN row.symbol_code[1]
          ELSE IF row.code # None /\ row.code[1] # <<>> THEN row.code[1]
          ELSE <<>>)

\* Lines 103-110: the loop over the records, from record idx on.
RECURSIVE DedupRecords(_, _, _)
DedupRecords(records, idx, st) ==
  IF idx > Len(records) \/ st.raised THEN st
  ELSE IF RecordCode(records[idx]) = <<>> \/ records[idx].time = 0
       THEN DedupRecords(records, idx + 1, st)
  ELSE DedupRecords(records, idx + 1,
                    DedupFrame(st, map_row_to_frame(RecordCode(records[idx]),
                                                    records[idx], idx)))

\* The order of the characters of a venue symbol and of a time string.
CharRank(c) ==
  CASE c = " " -> 0 [] c = "-" -> 1 [] c = "." -> 2 [] c = "0" -> 3
    [] c = "1" -> 4 [] c = "2" -> 5 [] c = "3" -> 6 [] c = "4" -> 7
    [] c = "5" -> 8 [] c = "6" -> 9 [] c = "7" -> 10 [] c = "8" -> 11
    [] c = "9" -> 12 [] c = ":" -> 13 [] c = "H" -> 14 [] c = "S" -> 15
    [] c = "Z" -> 16 [] OTHER -> 17

RECURSIVE StrLess(_, _)
StrLess(a, b) ==
  IF b = <<>> THEN FALSE
  ELSE IF a = <<>> THEN TRUE
  ELSE IF CharRank(a[1]) # CharRank(b[1]) THEN CharRank(a[1]) < CharRank(b[1])
  ELSE StrLess(Tail(a), Tail(b))

\* Line 114: the sort key (start_ts_ms, symbol).
FrameBefore(a, b) ==
  \/ a.window.start_ts_ms < b.window.start_ts_ms
  \/ /\ a.window.start_ts_ms = b.window.start_ts_ms
     /\ StrLess(a.instrument.symbol, b.instrument.symbol)

\* An insertion that leaves the frames in the order of the dict.
InsertFrameLast(sorted, frame) == Append(sorted, frame)

\* list.sort is stable: a frame goes after the frames not above it.
RECURSIVE InsertFrame(_, _)
InsertFrame(sorted, frame) ==
  IF sorted = <<>> THEN <<frame>>
  ELSE IF FrameBefore(frame, sorted[1]) THEN <<frame>> \o sorted
  ELSE <<sorted[1]>> \o InsertFrame(Tail(sorted), frame)

RECURSIVE SortFrames(_, _)
SortFrames(frames, sorted) ==
  IF frames = <<>> THEN sorted
  ELSE SortFrames(Tail(frames), InsertFrame(sorted, frames[1]))

\* The Python slice s[start:]: a negative start counts from the end, and a
\* start beyond either end is clamped to it.
SliceFrom(s, start) ==
  IF start < 0 THEN SubSeq(s, Max(Len(s) + start, 0) + 1, Len(s))
  ELSE SubSeq(s, Min(start, Len(s)) + 1, Len(s))

\* Lines 117-118: frames[-max_frames:], where -0 is 0.
LastFrames(frames, max_frames) ==
  IF Len(frames) > max_frames THEN SliceFrom(frames, 0 - max_frames)
  ELSE frames

\* Lines 120-121.
Renumber(frames) == [i \in 1..Len(frames) |-> [frames[i] EXCEPT !.seq = i]]

\* Lines 112-123 on the dict the loop left.
FramesOf(deduped, max_frames) ==
  Renumber(LastFrames(
    SortFrames([j \in 1..Len(deduped) |-> deduped[j].frame], <<>>), max_frames))

ConvertResult(st, max_frames) ==
  IF st.raised THEN [raised |-> TRUE, frames |-> <<>>]
  ELSE [raised |-> FALSE, frames |-> FramesOf(st.deduped, max_frames)]

\* Lines 98-123: [raised, frames].
convert_records_to_frames(records, max_frames) ==
  ConvertResult(DedupRecords(records, 1, [raised |-> FALSE, deduped |-> <<>>]),
                max_frames)

\* ------------------------------------------------- functions on their own
\* What a call of a function on its own leaves alone: everything but call.
pureUnchanged == <<symbols, now, weekday, other, fileVars, passes, crashes, pc, mem,
                   outcome, summary, histVars>>

\* The frames fetch_minute_tail is called on: short ones, and ones around
\* the recovery window.
RowCounts == {0, 1, 2} \cup ((MIN_RECOVERY_BARS - 1)..MaxRows)
TailBars == {1, DEFAULT_TAIL_BARS, MIN_RECOVERY_BARS, MaxRows}

HistFrames == {None} \cup {Some(UpstreamSeries(n, FALSE)) : n \in RowCounts}
AltFrames == {None} \cup {Some(AltSeries(n, FALSE)) : n \in {0, 1, 2, MaxRows}}

\* fetch_minute_tail(code, tail_bars) on the responses of the two endpoints.
CallFetchMinuteTail ==
  /\ pc = "idle"
  /\ call = NoCall
  /\ symbols = SymbolList
  /\ \E code \in Codes, tail_bars \in TailBars, hist \in HistFrames,
        alt \in AltFrames :
       call' = [fn |-> "fetch_minute_tail",
                args |-> [code |-> code, tail_bars |-> tail_bars, hist |-> hist,
                          alt |-> alt],
                out |-> fetch_minute_tail(code, tail_bars, hist, alt)]
  /\ UNCHANGED pureUnchanged

\* The quotes the synthesizer is called on: the four prices vary on their
\* own, and so do the cumulative volume and turnover.
Cumulatives == 0..(MaxLot + 1)
PureQuotes ==
  {fetch_quote_snapshot(
     SymbolList[2],
     [latest |-> Some(l), pct_change |-> Some(1), turnover |-> Some(tv),
      volume |-> Some(v), open |-> Some(o), high |-> Some(h), low |-> Some(lo),
      prev_close |-> Some(1)]) :
   l \in 1..MaxPrice, o \in 1..MaxPrice, h \in {1, MaxPrice}, lo \in {1, MaxPrice},
   v \in Cumulatives, tv \in Cumulatives}

\* What a tracker of the checkpoint holds for a code: nothing, or a
\* cumulative value.
Tracked == {None} \cup {Some(v) : v \in Cumulatives}

\* build_synthetic_minute_row_from_quote on a quote and two deltas.
CallBuildSynthetic ==
  /\ pc = "idle"
  /\ call = NoCall
  /\ symbols = SymbolList
  /\ \E quote \in PureQuotes, dv \in (-1)..MaxLot, da \in (-1)..MaxLot :
       call' = [fn |-> "build_synthetic_minute_row_from_quote",
                args |-> [quote |-> quote, volume_lot_delta |-> dv,
                          amount_cny_delta |-> da],
                out |-> build_synthetic_minute_row_from_quote(
                          SymbolList[2], quote, now, dv, da)]
  /\ UNCHANGED pureUnchanged

\* Lines 401-425 on a quote and what the trackers hold for its code.
CallSyntheticRow ==
  /\ pc = "idle"
  /\ call = NoCall
  /\ symbols = SymbolList
  /\ \E quote \in PureQuotes, pv \in Tracked, pt \in Tracked :
       call' = [fn |-> "synthetic_row",
                args |-> [quote |-> quote, prev_volume_lot |-> pv,
                          prev_turnover_cny |-> pt],
                out |-> SyntheticRow(SymbolList[2], quote, now, pv, pt)]
  /\ UNCHANGED pureUnchanged

\* The raw records the converter is called on: three spellings of two
\* codes, the empty time and two minutes, prices that differ, and one
\* record whose time does not parse.
ConvSymbols == {SymbolList[1], to_code(SymbolList[1]), SymbolList[2]}
ConvTimes == {0, 1, MaxTime}

ConvRecord(symbol, time, close) ==
  [symbol_code |-> Some(symbol), code |-> None, time |-> time, open |-> Some(1),
   close |-> Some(close), high |-> None, low |-> None,
   volume_lot |-> Some(MaxLot), amount_cny |-> Some(close * MaxLot * 100),
   avg_price |-> Some(close), source |-> "akshare.stock_zh_a_hist_min_em"]

ConvRecords ==
  {ConvRecord(sym, t, c) : sym \in ConvSymbols, t \in ConvTimes, c \in {1, MaxPrice}}
    \cup {ConvRecord(SymbolList[2], MalformedTime, 1)}
    \cup {[ConvRecord(<<>>, 1, 1) EXCEPT !.symbol_code = None],
          [ConvRecord(<<>>, MaxTime, 1) EXCEPT !.code = Some(SymbolList[2])]}

RecordLists == UNION {[1..n -> ConvRecords] : n \in 0..MaxRecords}

\* The max_frames the converter is called with: none, fewer than the keys
\* of a list, and the default.
MaxFramesArgs == {0, 1, 2, DEFAULT_MAX_FRAMES}

\* convert_records_to_frames on a list of raw records.
CallConvert ==
  /\ pc = "idle"
  /\ call = NoCall
  /\ symbols = SymbolList
  /\ \E records \in RecordLists, max_frames \in MaxFramesArgs :
       call' = [fn |-> "convert_records_to_frames",
                args |-> [records |-> records, max_frames |-> max_frames],
                out |-> convert_records_to_frames(records, max_frames)]
  /\ UNCHANGED pureUnchanged

\* The raw rows map_row_to_frame is called on: real and synthetic ones,
\* whose open, close, high and low vary on their own.
SourceTags == {"akshare.stock_zh_a_hist_min_em", "akshare.quote_synthetic_minute"}
MapRows ==
  {[symbol_code |-> Some(SymbolList[2]), time |-> t, open |-> Some(o),
    close |-> Some(c), high |-> h, low |-> lo, volume_lot |-> Some(v),
    amount_cny |-> Some(c * v * 100), avg_price |-> Some(c), source |-> src] :
   t \in {1, MalformedTime}, o \in 1..MaxPrice, c \in 1..MaxPrice,
   h \in {None, Some(MaxPrice)}, lo \in {None, Some(1)}, v \in 0..MaxLot,
   src \in SourceTags}

\* The row of tests/test_converter.py lines 7-23, its prices to the yuan.
ExampleRow ==
  [symbol_code |-> Some(SymbolList[2]), time |-> MaxTime, open |-> Some(11),
   close |-> Some(11), high |-> Some(11), low |-> Some(11),
   volume_lot |-> Some(5825), amount_cny |-> Some(6384200), avg_price |-> None,
   source |-> "akshare.stock_zh_a_hist_min_em"]

\* Rows whose turnover is absent, given, or 0, over whole and zero volumes.
DerivationRows ==
  {ExampleRow} \cup
  {[symbol_code |-> Some(SymbolList[2]), time |-> 1, open |-> Some(o),
    close |-> Some(c), high |-> None, low |-> None, volume_lot |-> v,
    amount_cny |-> a, avg_price |-> None,
    source |-> "akshare.stock_zh_a_hist_min_em"] :
   o \in 1..MaxPrice, c \in 1..MaxPrice, v \in {None, Some(0), Some(1), Some(3)},
   a \in {None, NonNumeric, Some(0), Some(1), Some(250)}}

\* map_row_to_frame on a code and a raw row.
CallMapRow ==
  /\ pc = "idle"
  /\ call = NoCall
  /\ symbols = SymbolList
  /\ \E code \in ConvSymbols, row \in MapRows \cup DerivationRows :
       call' = [fn |-> "map_row_to_frame",
                args |-> [code |-> code, row |-> row],
                out |-> map_row_to_frame(code, row, 1)]
  /\ UNCHANGED pureUnchanged

\* The spellings to_code is called on: up to two leading parts (an exchange
\* prefix in any letter case, or a blank), a digit string, and an exchange
\* suffix or none.
PrefixSpellings ==
  {<<"s", "h">>, <<"S", "H">>, <<"S", "h">>, <<"s", "H">>, <<"s", "z">>,
   <<"S", "Z">>, <<"s", "Z">>, <<"b", "j">>, <<"B", "J">>, <<"B", "j">>}
DigitStrings ==
  UNION {[1..n -> {"1", "6"}] : n \in 0..MaxDigits} \cup {to_code(SymbolList[1])}
SuffixSpellings == {<<>>, <<".", "S", "H">>, <<".", "s", "z">>}

\* to_code on a spelling, given by its parts.
CallToCode ==
  /\ pc = "idle"
  /\ call = NoCall
  /\ symbols = SymbolList
  /\ \E p1 \in PrefixSpellings \cup {<<>>, <<" ">>},
        p2 \in {<<>>, <<"s", "h">>, <<" ">>},
        d \in DigitStrings, suf \in SuffixSpellings :
       call' = [fn |-> "to_code",
                args |-> [p1 |-> p1, p2 |-> p2, d |-> d, suf |-> suf,
                          value |-> p1 \o p2 \o d \o suf],
                out |-> to_code(p1 \o p2 \o d \o suf)]
  /\ UNCHANGED pureUnchanged

\* The 6-digit codes the venue is derived of: one per leading digit.
VenueCodes ==
  {<<dg, "0", "0", "0", "0", "1">> :
     dg \in {"0", "1", "2", "3", "4", "5", "6", "7", "8", "9"}}

\* The three venue-qualified identifiers of a code.
CallVenue ==
  /\ pc = "idle"
  /\ call = NoCall
  /\ symbols = SymbolList
  /\ \E code \in VenueCodes :
       call' = [fn |-> "venue",
                args |-> [code |-> code],
                out |-> [symbol |-> to_onlytrade_symbol(code),
                         exchange |-> exchange_from_code(code),
                         prefixed |-> _to_prefixed_symbol(code)]]
  /\ UNCHANGED pureUnchanged

\* The instants the session clock is asked about, in Shanghai time: the
\* minutes around the ends of the two sessions, mid-session, midday, the
\* ends of the day and the hour at which the UTC date changes.
ClockMinutes ==
  {0, (8 * 60) - 1, 8 * 60, (9 * 60) + 29, (9 * 60) + 30, (9 * 60) + 31,
   10 * 60, (11 * 60) + 29, (11 * 60) + 30, (11 * 60) + 31, 12 * 60,
   (12 * 60) + 59, 13 * 60, (13 * 60) + 1, (14 * 60) + 59, 15 * 60,
   (15 * 60) + 1, (23 * 60) + 59}
ClockSeconds == {0, 1, 59}
Zones == {"naive", "shanghai", "utc"}

\* is_cn_a_market_open of the guard and _is_cn_a_market_open of the
\* collector on one instant, given as a datetime of some zone.
CallMarketOpen ==
  /\ pc = "idle"
  /\ call = NoCall
  /\ symbols = SymbolList
  /\ \E tz \in Zones, wd \in 0..6, mod \in ClockMinutes, ss \in ClockSeconds :
       call' = [fn |-> "is_cn_a_market_open",
                args |-> [wd |-> wd, mod |-> mod, ss |-> ss,
                          now |-> DatetimeIn(tz, wd, mod, ss)],
                out |-> [guard |-> is_cn_a_market_open(DatetimeIn(tz, wd, mod, ss)),
                         collector |->
                           _is_cn_a_market_open(
                             ToShanghai(DatetimeIn(tz, wd, mod, ss)).wd,
                             ToShanghai(DatetimeIn(tz, wd, mod, ss)).mod,
                             ToShanghai(DatetimeIn(tz, wd, mod, ss)).ss)]]
  /\ UNCHANGED pureUnchanged

\* The checkpoint files the load is called on: none, a torn text, texts
\* that parse to something other than an object, objects whose
\* last_time_by_symbol is no dict, and checkpoint documents.
CheckpointFiles ==
  {None, Partial(DefaultCheckpoint), Complete(DefaultCheckpoint),
   Complete([last_time_by_symbol |-> [c \in Codes |-> MaxTime]])}
    \cup {Complete(JsonOther(k)) : k \in {"list", "null", "number", "string"}}
    \cup {Complete([last_time_by_symbol |-> FieldOther(k)]) :
            k \in {"null", "empty", "list", "number", "string"}}

\* Lines 315-322 on a checkpoint file.
CallLoadCheckpoint ==
  /\ pc = "idle"
  /\ call = NoCall
  /\ symbols = SymbolList
  /\ \E file \in CheckpointFiles :
       call' = [fn |-> "load_checkpoint",
                args |-> [file |-> file],
                out |-> LoadCheckpoint(file)]
  /\ UNCHANGED pureUnchanged

\* The values a numeric field of an upstream row can hold.
FieldValues == {None, Some(MaxPrice), NonNumeric}

\* One-row frames of a minute endpoint, every numeric field on its own
\* absent, a number, or a text that is no number.
FieldRows ==
  {[time |-> 1, open |-> o, close |-> c, high |-> h, low |-> l, volume |-> v,
    amount |-> a, avg |-> g] :
     o \in FieldValues, c \in FieldValues, h \in FieldValues, l \in FieldValues,
     v \in FieldValues, a \in FieldValues, g \in FieldValues}

\* The direct quote with a field that is no number.
FieldQuotes(t) ==
  RawQuotes(t) \cup {[q EXCEPT !.latest = NonNumeric, !.volume = None] : q \in RawQuotes(t)}

\* Lines 335-441 on an empty checkpoint with the row as the frame of one
\* minute endpoint: the primary one, or the alternate one after the primary
\* gave an empty frame.
FieldLoopBody(code, endpoint, row, quote) ==
  LoopBodyFor(code, InitMem,
              [hist |-> IF endpoint = "hist" THEN Some(<<row>>) ELSE Some(<<>>),
               alt |-> IF endpoint = "hist" THEN None ELSE Some(<<row>>),
               direct |-> Some(quote), spot |-> None, market_open |-> FALSE,
               minute_time |-> 1, failReal |-> 0, failSynth |-> FALSE])

\* The normalisers and the loop body on a row with such fields.
CallNormalizeRow ==
  /\ pc = "idle"
  /\ call = NoCall
  /\ symbols = SymbolList
  /\ \E endpoint \in {"hist", "minute"}, row \in FieldRows, quote \in FieldQuotes(1) :
       LET code == to_code(SymbolList[1])
           body == FieldLoopBody(code, endpoint, row, quote)
       IN call' = [fn |-> "normalize_row",
                   args |-> [endpoint |-> endpoint, row |-> row, quote |-> quote],
                   out |-> [rows |-> IF endpoint = "hist"
                                     THEN _normalize_minute_rows(code, <<row>>)
                                     ELSE _normalize_minute_rows_from_minute_api(
                                            code, <<row>>),
                            quote |-> fetch_quote_snapshot(code, quote),
                            written |-> body.mem.writer,
                            quote_rows |-> body.mem.quote_rows,
                            errors |-> body.mem.errors]]
  /\ UNCHANGED pureUnchanged

\* The decimal digits of a number below 100, and its two-digit form.
Digit(n) == SubSeq(<<"0", "1", "2", "3", "4", "5", "6", "7", "8", "9">>, n + 1, n + 1)
Decimal(n) == IF n < 10 THEN Digit(n) ELSE Digit(n \div 10) \o Digit(n % 10)
TwoDigits(n) == Digit(n \div 10) \o Digit(n % 10)

\* The text of the time h:m of the modelled day, as strftime("%H:%M")
\* writes it (padded) and as a source that does not pad the hour writes it.
\* The date and the seconds, the same in every text, are left out.
TimeText(h, m, padded) ==
  (IF padded THEN TwoDigits(h) ELSE Decimal(h)) \o <<":">> \o TwoDigits(m)

\* Lines 114 and 137: the time of a normalised row is the text of the
\* upstream field as it came.  at is the minute of the day the text denotes.
UpstreamTimes ==
  {[text |-> TimeText(h, m, padded), at |-> (h * 60) + m] :
     h \in {9, 10, 14}, m \in {0, 30, 59}, padded \in BOOLEAN}

\* Line 343: what the checkpoint holds for the code: nothing, a text an
\* earlier row came with (line 354), or a text of strftime (line 433).
CheckpointTimes == {[text |-> <<>>, at |-> 0]} \cup UpstreamTimes

\* Lines 343-348 on the texts: whether the row is appended.
GateAcceptsText(current, last_seen) ==
  current # <<>> /\ ~(last_seen # <<>> /\ (current = last_seen \/ StrLess(current, last_seen)))

\* Lines 398-400 on the texts: whether the synthetic bar is appended.
SyntheticGateText(minute_time, last_seen) ==
  minute_time # <<>> /\ (last_seen = <<>> \/ StrLess(last_seen, minute_time))

\* The gates on the time of a row and a checkpoint time, and on the text
\* strftime gives for the same time.
CallGate ==
  /\ pc = "idle"
  /\ call = NoCall
  /\ symbols = SymbolList
  /\ \E current \in UpstreamTimes, last_seen \in CheckpointTimes :
       call' = [fn |-> "gate",
                args |-> [current |-> current, last_seen |-> last_seen],
                out |-> [accepted |-> GateAcceptsText(current.text, last_seen.text),
                         synthetic |-> SyntheticGateText(
                                         TimeText(current.at \div 60,
                                                  current.at % 60, TRUE),
                                         last_seen.text)]]
  /\ UNCHANGED pureUnchanged

\* What the invocations of fn do, one after the other: the i-th returns
\* the value i or raises the error "error i".
FnOutcomes ==
  {[i \in 1..(MaxAttempts + 1) |->
      IF i \in S THEN [ok |-> TRUE, value |-> i, error |-> ""]
      ELSE [ok |-> FALSE, value |-> 0, error |-> <<"error", i>>]] :
     S \in SUBSET (1..(MaxAttempts + 1))}

\* _retry_call(fn, attempts) under a sleep interval of 0 or more.
CallRetry ==
  /\ pc = "idle"
  /\ call = NoCall
  /\ symbols = SymbolList
  /\ \E outcomes \in FnOutcomes, attempts \in (0 - 1)..MaxAttempts, sleep_sec \in {0, 1} :
       call' = [fn |-> "_retry_call",
                args |-> [outcomes |-> outcomes, attempts |-> attempts,
                          sleep_sec |-> sleep_sec],
                out |-> _retry_call(outcomes, attempts, sleep_sec)]
  /\ UNCHANGED pureUnchanged

\* Checkpoint documents of earlier passes: entries for the code of the
\* second symbol, which the pass does not request, and with or without
\* entries for the code of the first, which it does.
OtherCode == to_code(SymbolList[2])
StoredCheckpoints ==
  {[last_time_by_symbol |-> t, last_quote_volume_lot_by_symbol |-> v,
    last_quote_turnover_cny_by_symbol |-> v] :
     t \in {[c \in {OtherCode} |-> MaxTime], [c \in Codes |-> 1]},
     v \in {EmptyMap, [c \in {OtherCode} |-> MaxLot], [c \in Codes |-> MaxLot + 1]}}

\* The locals after lines 315-330 on the checkpoint document.
LoadedMem(doc) ==
  [InitMem EXCEPT
     !.last_time_by_symbol = LoadFrom(doc).last_time_by_symbol,
     !.last_quote_volume_lot_by_symbol = LoadFrom(doc).last_quote_volume_lot_by_symbol,
     !.last_quote_turnover_cny_by_symbol =
        LoadFrom(doc).last_quote_turnover_cny_by_symbol]

\* A pass over the first symbol alone on a stored checkpoint: lines 315-441
\* and the checkpoint document of lines 453-462.
CallPassOnCheckpoint ==
  /\ pc = "idle"
  /\ call = NoCall
  /\ symbols = SymbolList
  /\ \E doc \in StoredCheckpoints :
       \E in \in LoopInputs(LoadedMem(doc), {0}, {FALSE}) :
         LET body == LoopBody(SymbolList[1], LoadedMem(doc), in)
         IN call' = [fn |-> "pass_on_checkpoint",
                     args |-> [symbol |-> SymbolList[1], checkpoint |-> doc],
                     out |-> [written |-> body.mem.writer,
                              quote |-> body.seen.quote,
                              checkpoint |-> CheckpointDoc(body.mem)]]
  /\ UNCHANGED pureUnchanged

NextPure ==
  \/ CallPassOnCheckpoint
  \/ CallRetry
  \/ CallGate
  \/ CallNormalizeRow
  \/ CallLoadCheckpoint
  \/ CallMarketOpen
  \/ CallFetchMinuteTail
  \/ CallBuildSynthetic
  \/ CallSyntheticRow
  \/ CallConvert
  \/ CallMapRow
  \/ CallToCode
  \/ CallVenue

SpecPure == Init /\ [][NextPure]_vars

\* ------------------------------------------------------------ properties
\* The rows appended so far, those still in the writer's buffer included.
LogAll == rawLog \o mem.writer

\* The rows appended since the last pass started.
PassRows == SubSeq(LogAll, startLen + 1, Len(LogAll))

IsSynthetic(row) == row.source = "akshare.quote_synthetic_minute"

RowsOf(log, code) == SelectSeq(log, LAMBDA row : row.symbol_code = code)

\* The time of the last row of the code in the log, 0 when it has none.
LastTimeIn(log, code) ==
  LET rows == RowsOf(log, code)
  IN IF rows = <<>> THEN 0 ELSE rows[Len(rows)].time

SymbolCodes == {to_code(symbols[i]) : i \in 1..Len(symbols)}

\* Every loop body of the pass has run.
LoopDone == DOMAIN seen = SymbolCodes

\* The errors of the pass: the local list, or the summary's once returned.
PassErrors == IF pc = "idle" THEN summary.errors ELSE mem.errors

HasError(code, stage) ==
  \E i \in 1..Len(PassErrors) :
    PassErrors[i].symbol_code = code /\ PassErrors[i].stage = stage

\* C1: over passes that run one at a time to completion, the timestamps of
\* the bars appended for each symbol, real and synthetic together, are
\* strictly increasing, and a pass appends no bar whose timestamp is at or
\* below the symbol's checkpoint value at the start of the pass.
C1_ForwardOnlyAppend ==
  /\ \A i, j \in 1..Len(LogAll) :
       (i < j /\ LogAll[i].symbol_code = LogAll[j].symbol_code)
         => LogAll[i].time < LogAll[j].time
  /\ \A i \in 1..Len(PassRows) :
       PassRows[i].time > LastSeen(startTimes, PassRows[i].symbol_code)

\* A later pass has appended a bar for a symbol that already had one, and
\* the log holds a real and a synthetic bar of that symbol.
C1_Witness ==
  /\ startLen > 0
  /\ \E i \in 1..startLen, j \in (startLen + 1)..Len(LogAll) :
       /\ LogAll[i].symbol_code = LogAll[j].symbol_code
       /\ IsSynthetic(LogAll[i]) # IsSynthetic(LogAll[j])

\* C2: a pass that follows an interrupted pass appends no (symbol, time) bar
\* the raw log already holds: the log never holds the same (symbol, time)
\* twice.
C2_NoBarReEmitted ==
  \A i, j \in 1..Len(rawLog) :
    (i < j /\ rawLog[i].symbol_code = rawLog[j].symbol_code)
      => rawLog[i].time # rawLog[j].time

\* The second of two passes in succession on which every source gave the
\* same minute rows and the same quote for every symbol.
SecondRunUnchanged == LoopDone /\ prevSeen = Some(seen)

\* C3 as stated: the second of two passes in succession with unchanged
\* upstream data appends no bar at all.
C3_SecondRunAppendsNothing == SecondRunUnchanged => PassRows = <<>>

\* C3 amended: the second of two passes in succession with unchanged
\* upstream data appends no real bar; what it appends are synthetic bars.
C3_SecondRunAppendsNoRealBar ==
  SecondRunUnchanged => \A i \in 1..Len(PassRows) : IsSynthetic(PassRows[i])

\* The second run had real rows to look at, let none through, and appended
\* a synthetic bar.
C3_Witness ==
  /\ SecondRunUnchanged
  /\ PassRows # <<>>
  /\ \E code \in DOMAIN seen : seen[code].minute.rows # <<>>

\* The rows the gate of the claim lets through, from the candidates in
\* order, starting at the checkpoint value cp.
RECURSIVE ExpectedAppends(_, _)
ExpectedAppends(rows, cp) ==
  IF rows = <<>> THEN <<>>
  ELSE IF Head(rows).time # 0 /\ (cp = 0 \/ Head(rows).time > cp)
       THEN <<Head(rows)>> \o ExpectedAppends(Tail(rows), Head(rows).time)
       ELSE ExpectedAppends(Tail(rows), cp)

\* The fetched rows the last loop body appended.
BodyRealRows ==
  LET n == Len(mem.writer) - (IF obs.synthetic THEN 1 ELSE 0)
  IN SubSeq(mem.writer, n - obs.written + 1, n)

PersistedTimes ==
  DictOrEmpty(read_json_or_default(ckptFile, DefaultCheckpoint),
              "last_time_by_symbol")

\* C4: a fetched candidate is appended exactly when its timestamp is not
\* empty and is above the symbol's checkpoint value at that moment (or the
\* symbol has none); the checkpoint of a symbol is the timestamp of the bar
\* last appended for it, in the pass and in the document a pass leaves.
C4_CheckpointGatedAppend ==
  /\ obs.code # <<>>
       => BodyRealRows = ExpectedAppends(seen[obs.code].minute.rows,
                                         obs.checkpoint_before)
  /\ pc # "idle"
       => \A i \in 1..Len(PassRows) :
            LastSeen(mem.last_time_by_symbol, PassRows[i].symbol_code)
              = LastTimeIn(PassRows, PassRows[i].symbol_code)
  /\ (pc = "idle" /\ outcome = "summary")
       => \A code \in Codes :
            LastSeen(PersistedTimes, code) = LastTimeIn(rawLog, code)

\* A pass that started from a checkpoint let some fetched rows through and
\* held others back, and has rewritten the checkpoint document.
C4_Witness ==
  /\ pc = "return"
  /\ startTimes # EmptyMap
  /\ \E code \in DOMAIN seen :
       /\ \E i \in 1..Len(PassRows) :
            PassRows[i].symbol_code = code /\ ~IsSynthetic(PassRows[i])
       /\ Len(RowsOf(PassRows, code)) < Len(seen[code].minute.rows)

\* The newest real bar of the code the log held when the pass started.
LastRealBefore(code) ==
  LastTimeIn(SelectSeq(SubSeq(rawLog, 1, Min(startLen, Len(rawLog))),
                       LAMBDA row : ~IsSynthetic(row)),
             code)

\* C5: in the first pass in which a minute source answers again after the
\* minute fetch of the symbol failed, every real bar of the returned tail
\* that is newer than the last real bar written before the outage is
\* appended, whatever the quote sources and the clock did meanwhile.
C5_OutageSelfHeal ==
  (/\ obs.minute = "rows"
   /\ prevSeen # None
   /\ obs.code \in DOMAIN prevSeen[1]
   /\ prevSeen[1][obs.code].minute.raised)
    => \A i \in 1..Len(seen[obs.code].minute.rows) :
         LET row == seen[obs.code].minute.rows[i]
         IN (row.time # 0 /\ row.time > LastRealBefore(obs.code))
              => \E j \in 1..Len(PassRows) : PassRows[j] = row

C7_PersistenceFailurePropagates ==
  /\ ~obs.write_failed
  /\ \A i \in 1..Len(PassErrors) : PassErrors[i].error # <<"OSError">>

\* C8: a step of a pass, a kill included, leaves the checkpoint document
\* and the quote-snapshot document as they were or holding the complete new
\* content.
C8_AtomicDocumentWrites ==
  [][/\ ckptFile' = ckptFile \/ ckptFile' = Complete(CheckpointDoc(mem))
     /\ quotesFile' = quotesFile \/ quotesFile' = Complete(QuotesDoc(mem))]_vars

\* A pass was killed with the temp file of the checkpoint half written
\* while the checkpoint of the pass before is in place.
C8_Witness ==
  /\ outcome = "killed"
  /\ ckptTmp # None
  /\ ckptTmp[1].torn
  /\ ckptFile # None
  /\ ~ckptFile[1].torn

\* C9: load_spot_quote_map is called at most once in a pass.
C9_SpotLoadedAtMostOnce == spotLoads <= 1

\* C10: a loop body appends a synthetic bar exactly when it appended no
\* real bar, a quote was obtained at one of the three tiers, the session
\* clock reports the market open, and the current minute is newer than the
\* symbol's checkpoint value (or the symbol has none).
C10_SyntheticTrigger ==
  obs.code # <<>>
    => (obs.synthetic
          <=> /\ ~obs.new_minute_written
              /\ obs.tier \in {1, 2, 3}
              /\ obs.market_open
              /\ (obs.last_seen = 0 \/ obs.minute_time > obs.last_seen))

\* The checkpoint document as the next pass reads it.
PersistedCheckpoint == read_json_or_default(ckptFile, DefaultCheckpoint)

\* C11: the checkpoint a pass writes holds, for every symbol a quote was
\* obtained for at any tier, that quote's volume and turnover as the last
\* observed cumulative values.
C11_TrackersRefreshed ==
  pc = "return"
    => \A code \in DOMAIN seen :
         seen[code].quote # None
           => /\ MapGet(DictOrEmpty(PersistedCheckpoint,
                                    "last_quote_volume_lot_by_symbol"), code)
                   = Some(seen[code].quote[1].volume_lot)
              /\ MapGet(DictOrEmpty(PersistedCheckpoint,
                                    "last_quote_turnover_cny_by_symbol"), code)
                   = Some(seen[code].quote[1].turnover_cny)

\* The source tag of the quote of each tier.
TierSource(tier) ==
  CASE tier = 1 -> "akshare.stock_bid_ask_em"
    [] tier = 2 -> "akshare.stock_zh_a_spot"
    [] tier = 3 -> "akshare.minute_bar_fallback"
    [] OTHER -> "none"

\* The first tier that can give the quote of the code of the last loop
\* body, 0 when none can: the direct endpoint answered; else the snapshot
\* is held and has the code; else a minute row of the code is held.
FirstTier ==
  IF ~obs.direct_raised THEN 1
  ELSE IF mem.spot_quote_map # None /\ obs.code \in DOMAIN mem.spot_quote_map[1]
  THEN 2
  ELSE IF obs.code \in DOMAIN mem.latest_minute_row_by_symbol THEN 3
  ELSE 0

\* C12: the quote tiers are tried in the order direct, snapshot, minute bar;
\* one quote row, tagged with the first tier that succeeds, is collected for
\* the symbol, and a quote error is recorded exactly when all three fail.
C12_QuoteFallbackOutcome ==
  obs.code # <<>>
    => LET rows == RowsOf(mem.quote_rows, obs.code)
       IN /\ FirstTier = 0 => rows = <<>>
          /\ FirstTier # 0
               => Len(rows) = 1 /\ rows[1].source = TierSource(FirstTier)
          /\ HasError(obs.code, "quote") <=> FirstTier = 0

\* Both tiers are behind the outcome: the direct endpoint raised, the
\* snapshot is held without the code, and the quote came from the minute bar.
C12_Witness ==
  /\ obs.code # <<>>
  /\ obs.direct_raised
  /\ mem.spot_quote_map # None
  /\ obs.code \notin DOMAIN mem.spot_quote_map[1]
  /\ FirstTier = 3
  /\ \E i \in 1..Len(mem.quote_rows) :
       mem.quote_rows[i].source = TierSource(2)

\* A minute fetcher fails when it raises or gives no row.
FetcherFails(resp) == resp = None \/ resp[1] = <<>>

\* The result holds the last k rows of the frame, in the frame's order,
\* each tagged with the source.
IsTailOf(rows, frame, k, source) ==
  /\ Len(rows) = k
  /\ k <= Len(frame)
  /\ \A i \in 1..k :
       /\ rows[i].time = frame[Len(frame) - k + i].time
       /\ rows[i].close = _as_float(frame[Len(frame) - k + i].close, 0)
       /\ rows[i].source = source

ServedFrame ==
  IF ~FetcherFails(call.args.hist) THEN call.args.hist[1]
  ELSE IF ~FetcherFails(call.args.alt) THEN call.args.alt[1]
  ELSE <<>>

\* C14: for a source giving n rows, fetch_minute_tail returns the last
\* min(n, max(tail_bars, 240)) rows in the source's order, ending with the
\* source's latest row.
C14_RecoveryWindow ==
  (call.fn = "fetch_minute_tail" /\ ServedFrame # <<>>)
    => LET n == Len(ServedFrame)
           k == Min(n, Max(call.args.tail_bars, 240))
       IN /\ Len(call.out.rows) = k
          /\ k >= Min(n, 240)
          /\ \A i \in 1..k : call.out.rows[i].time = ServedFrame[n - k + i].time
          /\ call.out.rows[k].time = ServedFrame[n].time

\* A source with more than 240 rows is asked for 8: the result is the last
\* 240, starting after the rows that fall outside the window.
C14_Witness ==
  /\ call.fn = "fetch_minute_tail"
  /\ call.args.tail_bars = 8
  /\ Len(ServedFrame) > 240
  /\ Len(call.out.rows) = 240
  /\ call.out.rows[1].time = ServedFrame[Len(ServedFrame) - 239].time
  /\ call.out.rows[1].time # ServedFrame[1].time

\* C15: when both minute fetchers fail, by raising or by giving no row,
\* fetch_minute_tail raises with the causes.
C15_MinuteExhaustionRaises ==
  (/\ call.fn = "fetch_minute_tail"
   /\ FetcherFails(call.args.hist)
   /\ FetcherFails(call.args.alt))
    => call.out.raised /\ call.out.errors # <<>>

\* C16: every bar build_synthetic_minute_row_from_quote builds has open,
\* high, low, close and avg_price equal to the quote's latest price,
\* whatever the quote's own open, high and low are.
C16_SyntheticBarFlat ==
  call.fn \in {"build_synthetic_minute_row_from_quote", "synthetic_row"}
    => /\ call.out.open = call.args.quote.latest
       /\ call.out.high = call.args.quote.latest
       /\ call.out.low = call.args.quote.latest
       /\ call.out.close = call.args.quote.latest
       /\ call.out.avg_price = call.args.quote.latest

\* A quote whose open, high and low all differ from its latest price gave a
\* flat bar at the latest price.
C16_Witness ==
  /\ call.fn = "build_synthetic_minute_row_from_quote"
  /\ call.args.quote.open # call.args.quote.latest
  /\ call.args.quote.high # call.args.quote.latest
  /\ call.args.quote.low # call.args.quote.latest
  /\ call.out.open = call.args.quote.latest
  /\ call.out.high = call.out.low

\* C17: the volume and the turnover of a synthetic bar are >= 0 and equal
\* max(0, current cumulative - previous cumulative), also when the
\* cumulative value went down between the two observations.
C17_SyntheticDeltaNonNegative ==
  /\ call.fn = "synthetic_row"
       => LET q == call.args.quote
              pv == call.args.prev_volume_lot
              pt == call.args.prev_turnover_cny
          IN /\ call.out.volume_lot >= 0
             /\ call.out.amount_cny >= 0
             /\ pv # None => call.out.volume_lot = Max(0, q.volume_lot - pv[1])
             /\ pt # None => call.out.amount_cny = Max(0, q.turnover_cny - pt[1])
  /\ call.fn = "build_synthetic_minute_row_from_quote"
       => /\ call.out.volume_lot = Max(0, call.args.volume_lot_delta)
          /\ call.out.amount_cny = Max(0, call.args.amount_cny_delta)

\* The cumulative volume and turnover both went down since the previous
\* observation, and the bar carries 0 for both.
C17_Witness ==
  /\ call.fn = "synthetic_row"
  /\ call.args.prev_volume_lot # None
  /\ call.args.prev_turnover_cny # None
  /\ call.args.quote.volume_lot < call.args.prev_volume_lot[1]
  /\ call.args.quote.turnover_cny < call.args.prev_turnover_cny[1]
  /\ call.out.volume_lot = 0
  /\ call.out.amount_cny = 0

\* C18: when the checkpoint holds no previous cumulative volume (or
\* turnover) for the symbol, the synthetic bar's volume (or turnover) is 0.
C18_FirstObservationDeltaZero ==
  call.fn = "synthetic_row"
    => /\ call.args.prev_volume_lot = None => call.out.volume_lot = 0
       /\ call.args.prev_turnover_cny = None => call.out.amount_cny = 0

\* No previous value for either, a quote with cumulative volume and
\* turnover above 0, and a bar with 0 for both.
C18_Witness ==
  /\ call.fn = "synthetic_row"
  /\ call.args.prev_volume_lot = None
  /\ call.args.prev_turnover_cny = None
  /\ call.args.quote.volume_lot > 0
  /\ call.args.quote.turnover_cny > 0
  /\ call.out.volume_lot = 0
  /\ call.out.amount_cny = 0

\* C19: a quote synthesized from a minute bar is produced only when the
\* symbol's own minute fetch returned a row in this pass; its latest price is
\* the close of the newest row of that fetch, its pct_change is 0 and it is
\* tagged as the minute-bar fallback.
C19_TierThreeQuote ==
  (obs.code # <<>> /\ obs.tier = 3)
    => /\ obs.code \in DOMAIN seen
       /\ LET fetched == seen[obs.code].minute
              quote == seen[obs.code].quote
          IN /\ obs.minute = "rows"
             /\ fetched.rows # <<>>
             /\ quote # None
             /\ quote[1].symbol_code = obs.code
             /\ fetched.rows[Len(fetched.rows)].symbol_code = obs.code
             /\ quote[1].latest = fetched.rows[Len(fetched.rows)].close
             /\ quote[1].pct_change = 0
             /\ quote[1].source = "akshare.minute_bar_fallback"
             /\ \E i \in 1..Len(mem.quote_rows) : mem.quote_rows[i] = quote[1]

\* The second symbol of the list got its quote from its own two fetched
\* rows, whose closes differ: the quote has the close of the newer.
C19_Witness ==
  /\ obs.code # <<>>
  /\ obs.tier = 3
  /\ obs.code = to_code(SymbolList[2])
  /\ obs.code \in DOMAIN seen
  /\ Len(seen[obs.code].minute.rows) = 2
  /\ seen[obs.code].minute.rows[1].close # seen[obs.code].minute.rows[2].close
  /\ seen[obs.code].quote[1].latest = seen[obs.code].minute.rows[2].close

\* The key of the frame the converter makes of a record it does not skip.
RecordKey(row) ==
  <<to_onlytrade_symbol(RecordCode(row)), _parse_start_ts_ms(row.time)[1]>>

\* Record r of the list is the last one with the key.
LastWithKey(records, r, key) ==
  /\ records[r].time # 0
  /\ RecordKey(records[r]) = key
  /\ \A r2 \in (r + 1)..Len(records) :
       records[r2].time = 0 \/ RecordKey(records[r2]) # key

\* C20: convert_records_to_frames outputs at most one frame per (venue
\* symbol, window_start_ms), and that frame carries the values of the last
\* input record with that key.
C20_DedupLastWriteWins ==
  call.fn = "convert_records_to_frames"
    => LET records == call.args.records
           frames == call.out.frames
       IN /\ \A i, j \in 1..Len(frames) :
               i # j => FrameKey(frames[i]) # FrameKey(frames[j])
          /\ \A i \in 1..Len(frames) :
               \E r \in 1..Len(records) :
                 /\ LastWithKey(records, r, FrameKey(frames[i]))
                 /\ frames[i].bar.close = records[r].close[1] * 10000
                 /\ frames[i].bar.turnover_cny = records[r].amount_cny[1] * 100
                 /\ frames[i].bar
                      = map_row_to_frame(RecordCode(records[r]), records[r], r)[1].bar

\* Two records of one key, spelled differently and with differing prices,
\* gave one frame with the price of the later record.
C20_Witness ==
  /\ call.fn = "convert_records_to_frames"
  /\ Len(call.args.records) = 2
  /\ call.args.records[1].time # 0
  /\ call.args.records[1].time = call.args.records[2].time
  /\ call.args.records[1].symbol_code # call.args.records[2].symbol_code
  /\ call.args.records[1].close # call.args.records[2].close
  /\ ~call.out.raised
  /\ Len(call.out.frames) = 1
  /\ call.out.frames[1].bar.close = call.args.records[2].close[1] * 10000

\* The frame a comes before the frame b in (window_start_ms, symbol) order.
KeyBefore(a, b) ==
  \/ a.window.start_ts_ms < b.window.start_ts_ms
  \/ /\ a.window.start_ts_ms = b.window.start_ts_ms
     /\ StrLess(a.instrument.symbol, b.instrument.symbol)

\* C21: the frames convert_records_to_frames returns are in strictly
\* ascending (window_start_ms, symbol) order and their seq fields are 1..N in
\* output order, whatever the positions of the records in the input.
C21_SortedAndSequenced ==
  call.fn = "convert_records_to_frames"
    => LET frames == call.out.frames
       IN /\ \A i \in 1..(Len(frames) - 1) : KeyBefore(frames[i], frames[i + 1])
          /\ \A i \in 1..Len(frames) : frames[i].seq = i

\* Three records in descending order of their keys, the later minute first:
\* the frames come out ascending and numbered 1, 2, 3.
C21_Witness ==
  /\ call.fn = "convert_records_to_frames"
  /\ Len(call.args.records) = 3
  /\ Len(call.out.frames) = 3
  /\ call.args.records[1].time > call.args.records[3].time
  /\ call.args.records[3].time > 0
  /\ call.out.frames[1].window.start_ts_ms < call.out.frames[3].window.start_ts_ms
  /\ call.out.frames[1].instrument.symbol # call.out.frames[2].instrument.symbol
  /\ call.out.frames[3].seq = 3

\* The distinct keys of the records the converter does not skip.
InputKeys(records) ==
  {RecordKey(records[r]) : r \in {x \in 1..Len(records) : records[x].time # 0}}

\* C22: for every max_frames >= 0, convert_records_to_frames returns exactly
\* min(K, max_frames) frames, K the number of distinct keys of the input,
\* and they are the greatest in (window_start_ms, symbol) order.
C22_RetentionCap ==
  (call.fn = "convert_records_to_frames" /\ ~call.out.raised)
    => LET frames == call.out.frames
           keys == InputKeys(call.args.records)
           kept == {FrameKey(frames[i]) : i \in 1..Len(frames)}
       IN /\ Len(frames) = Min(Cardinality(keys), call.args.max_frames)
          /\ kept \subseteq keys
          /\ \A k \in keys \ kept : \A f \in kept :
               \/ k[2] < f[2]
               \/ k[2] = f[2] /\ StrLess(k[1], f[1])

\* C23: for a raw row tagged akshare.quote_synthetic_minute, the frame
\* map_row_to_frame makes has bar.open, bar.high, bar.low and bar.close all
\* equal to the row's close price, whatever open, high and low the row has.
C23_ConverterFlattensSynthetic ==
  (/\ call.fn = "map_row_to_frame"
   /\ call.args.row.source = "akshare.quote_synthetic_minute"
   /\ call.out # None)
    => LET bar == call.out[1].bar
           close == call.args.row.close[1] * 10000
       IN bar.open = close /\ bar.high = close /\ bar.low = close
          /\ bar.close = close

\* C24: to_code(to_code(x)) = to_code(x) for every input string x.
C24_ToCodeIdempotent ==
  call.fn = "to_code" => to_code(call.out) = call.out

C26_SuffixedCanonicalized ==
  (/\ call.fn = "to_code"
   /\ call.args.p2 = <<>>
   /\ call.args.p1 \in PrefixSpellings \cup {<<>>}
   /\ call.args.suf # <<>>
   /\ Len(call.args.d) = 6)
    => call.out = call.args.d

\* C27: the .SH/.SZ suffix of to_onlytrade_symbol, the SSE/SZSE value of
\* exchange_from_code and the sh/sz prefix of _to_prefixed_symbol denote
\* Shanghai exactly when the code starts with 5, 6 or 9.
C27_VenueDerivationsAgree ==
  call.fn = "venue"
    => LET shanghai == call.args.code[1] \in {"5", "6", "9"}
       IN /\ (call.out.symbol = call.args.code \o <<".", "S", "H">>) <=> shanghai
          /\ (call.out.symbol = call.args.code \o <<".", "S", "Z">>) <=> ~shanghai
          /\ (call.out.exchange = "SSE") <=> shanghai
          /\ (call.out.exchange = "SZSE") <=> ~shanghai
          /\ (call.out.prefixed = <<"s", "h">> \o call.args.code) <=> shanghai
          /\ (call.out.prefixed = <<"s", "z">> \o call.args.code) <=> ~shanghai

\* C28 as stated: is_cn_a_market_open(t) is true exactly when t, in Shanghai
\* time, is on Monday to Friday and its minute of day lies in 09:30-11:30 or
\* 13:00-15:00, both ends included.
C28_SessionByMinute ==
  call.fn = "is_cn_a_market_open"
    => LET open == /\ call.args.wd <= 4
                   /\ \/ 570 <= call.args.mod /\ call.args.mod <= 690
                      \/ 780 <= call.args.mod /\ call.args.mod <= 900
       IN call.out.guard = open /\ call.out.collector = open

\* C28, amended: is_cn_a_market_open(t) is true exactly when t, in Shanghai
\* time, is on Monday to Friday and its time of day, seconds included, lies
\* in 09:30:00-11:30:00 or 13:00:00-15:00:00, both ends included; the
\* instants after 11:30:00 and 15:00:00 within those minutes are closed.
C28_SessionBySecond ==
  call.fn = "is_cn_a_market_open"
    => LET t == (call.args.mod * 60) + call.args.ss
           open == /\ call.args.wd <= 4
                   /\ \/ 34200 <= t /\ t <= 41400
                      \/ 46800 <= t /\ t <= 54000
       IN call.out.guard = open /\ call.out.collector = open

\* Friday 11:30:00 in Shanghai, given as a UTC datetime, is open.
C28_Witness ==
  /\ call.fn = "is_cn_a_market_open"
  /\ call.args.wd = 4
  /\ call.args.mod = 690
  /\ call.args.ss = 0
  /\ call.args.now.tz = "utc"
  /\ call.args.now.mod = 210
  /\ call.out.guard
  /\ call.out.collector

\* The pass is through its writes: one loop body was run per symbol, at
\* most one snapshot load each, and the two documents are in place.
PassWritten ==
  /\ pc = "return"
  /\ mem.idx = Len(symbols) + 1
  /\ spotLoads <= Len(symbols)
  /\ quotesFile = Complete(QuotesDoc(mem))
  /\ ckptFile = Complete(CheckpointDoc(mem))
  /\ quotesTmp = None
  /\ ckptTmp = None

\* The pass has returned its summary.
PassReturned ==
  /\ pc = "idle"
  /\ outcome = "summary"
  /\ summary.symbols_requested = Len(symbols)
  /\ summary.quotes_collected <= Len(symbols)
  /\ summary.minute_rows_appended >= summary.synthetic_minute_rows_appended
  /\ Len(summary.errors) <= 2 * Len(symbols)

\* C29: no pass ends by raising; every pass that starts goes on, after one
\* loop body per symbol, to have the quote-snapshot and checkpoint documents
\* written, and then returns a summary with the counters and the errors list.
C29_PassAlwaysFinishes ==
  /\ [](outcome # "raised")
  /\ (pc = "loop") ~> PassWritten
  /\ (pc = "return") ~> PassReturned

\* The file holds a checkpoint document: an object whose fields, where
\* present, are dicts.
WellFormedCheckpoint(file) ==
  /\ file # None
  /\ ~file[1].torn
  /\ IsJsonObject(file[1].doc)
  /\ \A key \in DOMAIN file[1].doc : IsFieldDict(file[1].doc[key])

\* C30: when the checkpoint file is missing or its content is not a
\* well-formed checkpoint document, the pass starts with an empty checkpoint
\* and does not raise.
C30_CorruptCheckpointLoadsEmpty ==
  (call.fn = "load_checkpoint" /\ ~WellFormedCheckpoint(call.args.file))
    => /\ ~call.out.raised
       /\ call.out.last_time_by_symbol = EmptyMap
       /\ call.out.last_quote_volume_lot_by_symbol = EmptyMap
       /\ call.out.last_quote_turnover_cny_by_symbol = EmptyMap

\* The value a normalised field has: the number of the upstream field, or
\* the fallback when the field is absent or no number.
Defaulted(value, fallback) == IF IsNumeric(value) THEN value[1] ELSE fallback

\* C31: a row with numeric fields absent or non-numeric is normalised to a
\* record with each such field at its fallback (0, or the close price for
\* high, low and avg_price on the alternate endpoint); the record is
\* appended and served like any other and the pass records no error.
C31_MalformedFieldsDefaulted ==
  call.fn = "normalize_row" =>
    LET row == call.args.row
        alt == call.args.endpoint = "minute"
        close == Defaulted(row.close, 0)
    IN /\ Len(call.out.rows) = 1
       /\ call.out.rows[1].open = Defaulted(row.open, 0)
       /\ call.out.rows[1].close = close
       /\ call.out.rows[1].high = Defaulted(row.high, IF alt THEN close ELSE 0)
       /\ call.out.rows[1].low = Defaulted(row.low, IF alt THEN close ELSE 0)
       /\ call.out.rows[1].volume_lot = Defaulted(row.volume, 0)
       /\ call.out.rows[1].amount_cny = Defaulted(row.amount, 0)
       /\ call.out.rows[1].avg_price = Defaulted(row.avg, IF alt THEN close ELSE 0)
       /\ call.out.quote.latest = Defaulted(call.args.quote.latest, 0)
       /\ call.out.quote.volume_lot = Defaulted(call.args.quote.volume, 0)
       /\ call.out.written = call.out.rows
       /\ call.out.quote_rows = <<call.out.quote>>
       /\ call.out.errors = <<>>

\* The alternate endpoint gave a row whose close is a number and whose high
\* is a text and whose low is absent, under a quote whose latest is a text.
C31_Witness ==
  /\ call.fn = "normalize_row"
  /\ call.args.endpoint = "minute"
  /\ call.args.row.close = Some(MaxPrice)
  /\ call.args.row.high = NonNumeric
  /\ call.args.row.low = None
  /\ call.args.quote.latest = NonNumeric
  /\ call.out.rows[1].high = MaxPrice
  /\ call.out.rows[1].low = MaxPrice
  /\ call.out.errors = <<>>

\* C32: the frame of a raw record has volume_shares = 100 * the lot
\* volume, window end = window start + 60000, turnover = the record's
\* turnover, or close * volume_shares when the record has none, and vwap =
\* turnover / volume_shares (to the nearest ten-thousandth) when
\* volume_shares > 0 and the close price when volume_shares = 0; 5825 lots
\* for 000001 give the symbol 000001.SZ and 582500 shares.
C32_FrameFieldDerivation ==
  (call.fn = "map_row_to_frame" /\ call.out # None) =>
    LET row == call.args.row
        frame == call.out[1]
        lots == IF IsNumeric(row.volume_lot) THEN row.volume_lot[1] ELSE 0
        close == row.close[1]
        turnover == IF IsNumeric(row.amount_cny) THEN row.amount_cny[1]
                    ELSE close * frame.bar.volume_shares
        off == (frame.bar.vwap * frame.bar.volume_shares) - (turnover * 10000)
    IN /\ frame.bar.volume_shares = 100 * lots
       /\ frame.window.end_ts_ms = frame.window.start_ts_ms + 60000
       /\ frame.bar.turnover_cny = turnover * 100
       /\ frame.bar.volume_shares \in 1..300 =>
            (2 * off <= frame.bar.volume_shares /\ 2 * (0 - off) <= frame.bar.volume_shares)
       /\ (lots = 5825 /\ turnover = 6384200) => frame.bar.vwap = 109600
       /\ frame.bar.volume_shares = 0 => frame.bar.vwap = close * 10000
       /\ (to_code(call.args.code) = <<"0", "0", "0", "0", "0", "1">> /\ lots = 5825) =>
            /\ frame.instrument.symbol = <<"0", "0", "0", "0", "0", "1", ".", "S", "Z">>
            /\ frame.bar.volume_shares = 582500

\* The example: 5825 lots and a turnover of 6384200 for 000001 give 582500
\* shares at a vwap of 10.96.
C32_Witness ==
  /\ call.fn = "map_row_to_frame"
  /\ call.args.row = ExampleRow
  /\ call.out # None
  /\ call.out[1].instrument.symbol = <<"0", "0", "0", "0", "0", "1", ".", "S", "Z">>
  /\ call.out[1].bar.volume_shares = 582500
  /\ call.out[1].bar.turnover_cny = 638420000
  /\ call.out[1].bar.vwap = 109600

\* C33: for every pair of timestamps the gate compares, the candidate
\* taken from an upstream time field as it came and the checkpoint entry,
\* the order of the strings is the order of the times: the row is appended
\* exactly when it is later than the checkpoint.
C33_LexicographicIsChronological ==
  (call.fn = "gate" /\ call.args.last_seen.text # <<>>) =>
    /\ call.out.accepted <=> (call.args.current.at > call.args.last_seen.at)
    /\ call.out.synthetic <=> (call.args.current.at > call.args.last_seen.at)

\* The invocations among the events.
Calls(events) == Cardinality({i \in 1..Len(events) : events[i] = "call"})

\* C34: _retry_call invokes fn at most max(1, attempts) times, returns the
\* result of the first invocation that succeeds and invokes fn no more,
\* raises the error of the last invocation when all fail, and sleeps only
\* between two invocations: never after the final attempt or a success.
C34_BoundedRetry ==
  call.fn = "_retry_call" =>
    LET limit == Max(1, call.args.attempts)
        outcomes == call.args.outcomes
        events == call.out.events
        good == {i \in 1..limit : outcomes[i].ok}
    IN /\ Calls(events) <= limit
       /\ good # {} =>
            LET first == CHOOSE i \in good : \A j \in good : i <= j
            IN /\ ~call.out.raised
               /\ call.out.value = Some(outcomes[first].value)
               /\ Calls(events) = first
       /\ good = {} =>
            /\ call.out.raised
            /\ call.out.error = outcomes[limit].error
            /\ Calls(events) = limit
       /\ events # <<>> /\ events[Len(events)] = "call" /\ events[1] = "call"
       /\ \A i \in 1..Len(events) :
            events[i] = "sleep" => (events[i - 1] = "call" /\ events[i + 1] = "call")
       /\ (call.args.sleep_sec > 0) =>
            \A i \in 1..(Len(events) - 1) : events[i] = "call" => events[i + 1] = "sleep"

\* Three attempts: two raise, each followed by a sleep, and the third
\* returns; the fourth invocation is not made.
C34_Witness ==
  /\ call.fn = "_retry_call"
  /\ call.args.attempts = 3
  /\ call.out.events = <<"call", "sleep", "call", "sleep", "call">>
  /\ call.out.value = Some(3)
  /\ call.args.outcomes[4].ok

\* The order of the steps of a pass.
PassOrder ==
  {<<"idle", "loop">>, <<"loop", "quotes_open">>, <<"quotes_open", "quotes_fill">>,
   <<"quotes_fill", "quotes_replace">>, <<"quotes_replace", "ckpt_open">>,
   <<"ckpt_open", "ckpt_fill">>, <<"ckpt_fill", "ckpt_replace">>,
   <<"ckpt_replace", "return">>, <<"return", "idle">>}

\* Every requested symbol has been processed and the raw log is closed.
LoopOver == mem.idx = Len(symbols) + 1 /\ mem.writer = <<>>

\* C35: the steps of a pass follow one another in one order, so that each
\* document is put in place once per pass; the quote-snapshot document is
\* put in place only by the step after the loop is over and the raw log is
\* closed, the checkpoint document only by a later step, with the
\* quote-snapshot document of the pass in place; no step taken while
\* symbols are being processed touches the checkpoint, the snapshot or
\* their temp files, and none after the loop touches the raw log.
C35_PersistenceOrdering ==
  [][/\ pc' # pc => <<pc, pc'>> \in PassOrder
     /\ pc # "quotes_replace" => quotesFile' = quotesFile
     /\ pc # "ckpt_replace" => ckptFile' = ckptFile
     /\ pc \notin {"quotes_open", "quotes_fill", "quotes_replace"} => quotesTmp' = quotesTmp
     /\ pc \notin {"ckpt_open", "ckpt_fill", "ckpt_replace"} => ckptTmp' = ckptTmp
     /\ pc # "loop" => rawLog' = rawLog
     /\ pc \notin {"idle", "loop"} => LoopOver
     /\ pc \notin {"idle", "loop", "return"} => mem' = mem
     /\ pc = "quotes_replace" =>
          quotesFile' = Complete(QuotesDoc(mem)) /\ pc' = "ckpt_open"
     /\ pc = "ckpt_replace" =>
          /\ ckptFile' = Complete(CheckpointDoc(mem))
          /\ quotesFile = Complete(QuotesDoc(mem))
          /\ pc' = "return"
     /\ pc = "return" => pc' = "idle"]_vars

\* A pass over two symbols that appended rows has put the quote-snapshot
\* document in place and is about to put the checkpoint in place, the
\* checkpoint file not yet there.
C35_Witness ==
  /\ pc = "ckpt_replace"
  /\ Len(symbols) = 2
  /\ LoopOver
  /\ rawLog # <<>>
  /\ quotesFile = Complete(QuotesDoc(mem))
  /\ ckptFile = None
  /\ ckptTmp = Complete(CheckpointDoc(mem))

\* The bar times the checkpoint file holds, as the next pass would load them.
DurableTimes == DictOrEmpty(PersistedCheckpoint, "last_time_by_symbol")

\* C36: at every instant, a kill of the pass included, each bar time the
\* checkpoint file holds for a symbol is the time of a bar that the raw log
\* file holds for that symbol.
C36_CheckpointNotAheadOfLog ==
  \A code \in DOMAIN DurableTimes :
    \E i \in 1..Len(rawLog) :
      rawLog[i].symbol_code = code /\ rawLog[i].time = DurableTimes[code]

\* A pass was killed after the log took a bar the checkpoint file, written
\* by the pass before, knows nothing of.
C36_Witness ==
  /\ outcome = "killed"
  /\ DurableTimes # EmptyMap
  /\ \E i \in 1..Len(rawLog) :
       /\ rawLog[i].symbol_code \in DOMAIN DurableTimes
       /\ rawLog[i].time > DurableTimes[rawLog[i].symbol_code]

\* C37: when two passes over the same checkpoint and raw log overlap, the
\* raw log never holds the same (symbol, time) bar twice, and once both
\* passes are through, the checkpoint file holds for every symbol a time
\* not older than the newest bar of the symbol in the log.
C37_OverlapAppendsNoDuplicate ==
  /\ \A i, j \in 1..Len(rawLog) :
       (i < j /\ rawLog[i].symbol_code = rawLog[j].symbol_code)
         => rawLog[j].time # rawLog[i].time
  /\ (pc = "idle" /\ other.pc = "idle") =>
       \A i \in 1..Len(rawLog) :
         /\ rawLog[i].symbol_code \in DOMAIN DurableTimes
         /\ DurableTimes[rawLog[i].symbol_code] >= rawLog[i].time

\* The three maps of a checkpoint document.
CheckpointMaps ==
  {"last_time_by_symbol", "last_quote_volume_lot_by_symbol",
   "last_quote_turnover_cny_by_symbol"}

\* C38: a pass over a symbol writes back, in each of the three maps of the
\* checkpoint, the entry of every code other than the symbol's normalized
\* code as it loaded it, entries of codes it was not asked for included,
\* and adds no entry under another code.
C38_PerSymbolIsolation ==
  call.fn = "pass_on_checkpoint" =>
    \A key \in CheckpointMaps :
      \A code \in (DOMAIN call.args.checkpoint[key]) \cup (DOMAIN call.out.checkpoint[key]) :
        code # to_code(call.args.symbol) =>
          MapGet(call.out.checkpoint[key], code) = MapGet(call.args.checkpoint[key], code)

\* The pass appended a bar of the requested symbol and took its quote on a
\* checkpoint that held entries of the other code only; the document it
\* writes has the requested code's entries next to the other code's.
C38_Witness ==
  /\ call.fn = "pass_on_checkpoint"
  /\ DOMAIN call.args.checkpoint.last_time_by_symbol = {OtherCode}
  /\ DOMAIN call.args.checkpoint.last_quote_volume_lot_by_symbol = {OtherCode}
  /\ call.out.written # <<>>
  /\ call.out.quote # None
  /\ DOMAIN call.out.checkpoint.last_time_by_symbol = Codes
  /\ DOMAIN call.out.checkpoint.last_quote_volume_lot_by_symbol = Codes
  /\ call.out.checkpoint.last_time_by_symbol[OtherCode] = MaxTime

\* The pass has returned and no other has started.
Returned == pc = "idle" /\ outcome = "summary"

\* The lines the pass appended to the raw log file.
AppendedLines == SubSeq(rawLog, startLen + 1, Len(rawLog))

\* The entries of the errors list recorded at the quote stage.
QuoteErrors(errors) == Cardinality({i \in 1..Len(errors) : errors[i].stage = "quote"})

\* C39: in the summary a pass returns, minute_rows_appended is the number
\* of lines the pass appended to the raw log, synthetic_minute_rows_appended
\* the number of synthetic ones among them (at most minute_rows_appended and
\* at most symbols_requested), quotes_collected the number of rows of the
\* quote document, and quotes_collected plus the quote-stage errors is
\* symbols_requested.
C39_SummaryCountersConsistent ==
  Returned =>
    /\ summary.minute_rows_appended = Len(AppendedLines)
    /\ summary.synthetic_minute_rows_appended =
         Len(SelectSeq(AppendedLines, IsSynthetic))
    /\ summary.synthetic_minute_rows_appended <= summary.minute_rows_appended
    /\ summary.synthetic_minute_rows_appended <= summary.symbols_requested
    /\ quotesFile # None
    /\ summary.quotes_collected = Len(quotesFile[1].doc.rows)
    /\ summary.quotes_collected + QuoteErrors(summary.errors)
         = summary.symbols_requested
    /\ summary.symbols_requested = Len(symbols)

\* A pass over two symbols returned: one got a synthetic bar and a quote,
\* the other no quote at any tier.
C39_Witness ==
  /\ Returned
  /\ summary.symbols_requested = 2
  /\ summary.minute_rows_appended = 1
  /\ summary.synthetic_minute_rows_appended = 1
  /\ summary.quotes_collected = 1
  /\ QuoteErrors(summary.errors) = 1

\* The record carries a symbol (under symbol_code or code) and a time.
Keyed(row) ==
  /\ \/ row.symbol_code # None /\ row.symbol_code[1] # <<>>
     \/ row.code # None /\ row.code[1] # <<>>
  /\ row.time # 0

\* C40: a record with no symbol or no time gives no frame and does not make
\* the conversion raise: a conversion of records whose times all parse
\* raises nothing, and every frame it gives has the key of a record that
\* carried both a symbol and a time.
C40_UnkeyedRecordsSkipped ==
  call.fn = "convert_records_to_frames" =>
    LET records == call.args.records
    IN /\ (\A r \in 1..Len(records) : records[r].time # MalformedTime)
            => ~call.out.raised
       /\ \A i \in 1..Len(call.out.frames) :
            \E r \in 1..Len(records) :
              /\ Keyed(records[r])
              /\ RecordKey(records[r]) = FrameKey(call.out.frames[i])

====
